---- MODULE Spec2Model ----
(***************************************************************************)
(* Model of the speed-test core (src/speedtest_core.py): the result        *)
(* validation policy, one engine attempt (run_speed_test) with its         *)
(* cancellation checkpoints, and the retry controller                      *)
(* (run_speed_test_with_retry) with its backoff sleep.                     *)
(*                                                                         *)
(* Units.  Raw throughput is counted in units of 100 kbit/s, so that       *)
(* 1 Mbit/s is 10 units and 1 Gbit/s is 10000 units; the Gbps ceilings of  *)
(* the configuration are kept in tenths of a Gbps.  Ping is in ms.  Time   *)
(* is in hundredths of a second.  Messages are sequences of words, and     *)
(* the substring tests of the code are made on whole words.                *)
(***************************************************************************)
EXTENDS Integers, Sequences, FiniteSets, TLC

(***************************************************************************)
(* Bounds of the exploration.                                              *)
(***************************************************************************)
\* largest max_retries explored (the code accepts 1..10)
MaxRetriesBound == 3
\* cancel_test() calls per run_speed_test_with_retry call
MaxCancelCalls == 2
\* run_speed_test_with_retry calls made on the one engine
MaxRuns == 2

\* sqlite3.connect calls of one TestResultStorage in a run of the model
MaxConnections == 2

\* the threads one AsyncSpeedTestRunner starts in a run of the model
MaxAsyncTests == 3

(***************************************************************************)
(* Program constants.                                                      *)
(***************************************************************************)
\* 1_000_000_000 bit/s in units of 100 kbit/s
BitsPerGbps == 10000
\* 1_000_000 bit/s in units of 100 kbit/s
LowSpeedBps == 10
\* the cap of the backoff delay, in seconds
MaxDelay == 30

Min(a, b) == IF a < b THEN a ELSE b

Max(a, b) == IF a > b THEN a ELSE b

RECURSIVE Pow2(_)
Pow2(n) == IF n = 0 THEN 1 ELSE 2 * Pow2(n - 1)

(***************************************************************************)
(* SpeedTestConfig.DEFAULT_CONFIG, with the Gbps ceilings in tenths and    *)
(* bits_to_mbps in units of 100 kbit/s.                                    *)
(***************************************************************************)
DEFAULT_CONFIG ==
    [ bits_to_mbps              |-> 10,
      max_retries               |-> 3,
      retry_delay               |-> 2,
      max_typical_speed_gbps    |-> 10,
      max_reasonable_speed_gbps |-> 100,
      max_typical_ping_ms       |-> 1000,
      max_reasonable_ping_ms    |-> 10000,
      connectivity_check_timeout |-> 10,
      speedtest_timeout         |-> 60,
      show_detailed_progress    |-> TRUE,
      save_results_to_database  |-> TRUE ]

(***************************************************************************)
(* Messages.                                                               *)
(***************************************************************************)
\* str.lower() on the words that carry an upper-case letter
Lower(w) ==
    CASE w = "Unable"     -> "unable"
      [] w = "No"         -> "no"
      [] w = "Connection" -> "connection"
      [] w = "Network"    -> "network"
      [] w = "Timeout"    -> "timeout"
      [] w = "Test"       -> "test"
      [] w = "Speedtest"  -> "speedtest"
      [] w = "Unexpected" -> "unexpected"
      [] w = "Invalid"    -> "invalid"
      [] w = "Extremely"  -> "extremely"
      [] w = "Python"     -> "python"
      [] w = "AttributeError:" -> "attributeerror:"
      [] w = "Check"      -> "check"
      [] w = "HTTP"       -> "http"
      [] OTHER            -> w

LowerMsg(msg) == [i \in 1..Len(msg) |-> Lower(msg[i])]

\* `phrase in msg` of Python, on words
ContainsPhrase(msg, phrase) ==
    \E i \in 1..(Len(msg) - Len(phrase) + 1) :
        SubSeq(msg, i, i + Len(phrase) - 1) = phrase

MsgCancelled == <<"Test", "cancelled", "by", "user">>

MsgNegative ==
    <<"Invalid", "negative", "values", "detected", "-", "measurement", "failed">>

MsgExtremeSpeed ==
    <<"Extremely", "high", "speeds", "detected", "-", "likely", "measurement", "error">>

MsgExtremePing ==
    <<"Extremely", "high", "ping", "detected", "-", "likely", "measurement", "error">>

MsgLowSpeed ==
    <<"Very", "low", "speeds", "detected", "-", "check", "network", "connection">>

MsgBadStructure ==
    <<"Invalid", "result", "data", "structure", "-", "measurement", "failed">>

\* f"{speed_gbps:.1f}": units of 100 kbit/s to Gbps with one decimal
FormatGbps(units) ==
    LET tenths == (units + (BitsPerGbps \div 20)) \div (BitsPerGbps \div 10)
    IN  ToString(tenths \div 10) \o "." \o ToString(tenths % 10)

MsgHighSpeed(units) ==
    <<"Unusually", "high", "speed", "(" \o FormatGbps(units), "Gbps)", "-",
      "please", "verify", "results">>

MsgHighLatency(ping) ==
    <<"High", "latency", "(" \o ToString(ping), "ms)", "detected", "-",
      "connection", "may", "be", "slow">>

(***************************************************************************)
(* SpeedTestEngine.validate_results.  A measurement is a tagged value: a   *)
(* number, a value that is no number (None), or a key the provider left    *)
(* out, which results.get(key, 0) reads as 0.                              *)
(***************************************************************************)
\* a measurement that is a number
Num(n) == [kind |-> "num", val |-> n]

\* a measurement that is no number (None)
NotANumber == [kind |-> "none", val |-> 0]

\* a key the provider left out of its results
Missing == [kind |-> "missing", val |-> 0]

\* results.get(key, 0)
GetOrZero(v) == IF v.kind = "missing" THEN Num(0) ELSE v

IsNumber(v) == v.kind = "num"

\* the negative check without its first comparison, download < 0
NegativeCheckDownloadUnchecked(d, u, p) ==
    IF ~IsNumber(d) THEN "raise"
    ELSE IF ~IsNumber(u) THEN "raise"
    ELSE IF u.val < 0 THEN "yes"
    ELSE IF ~IsNumber(p) THEN "raise"
    ELSE IF p.val < 0 THEN "yes"
    ELSE "no"

\* download < 0 or upload < 0 or ping < 0, left to right with short circuit:
\* "raise" when a comparison meets a value that is no number (TypeError)
NegativeCheck(d, u, p) ==
    IF ~IsNumber(d) THEN "raise"
    ELSE IF d.val < 0 THEN "yes"
    ELSE IF ~IsNumber(u) THEN "raise"
    ELSE IF u.val < 0 THEN "yes"
    ELSE IF ~IsNumber(p) THEN "raise"
    ELSE IF p.val < 0 THEN "yes"
    ELSE "no"

SoftWarnings(cfg, d, u, p) ==
    LET max_typical_bps == (cfg.max_typical_speed_gbps * BitsPerGbps) \div 10
        w1 == IF d > max_typical_bps \/ u > max_typical_bps
              THEN <<MsgHighSpeed(Max(d, u))>> ELSE <<>>
        w2 == IF p > cfg.max_typical_ping_ms
              THEN <<MsgHighLatency(p)>> ELSE <<>>
        w3 == IF d < LowSpeedBps /\ u < LowSpeedBps
              THEN <<MsgLowSpeed>> ELSE <<>>
    IN  w1 \o w2 \o w3

ValidateResultsNoPingCeiling(cfg, results) ==
    LET d == GetOrZero(results.download)
        u == GetOrZero(results.upload)
        p == GetOrZero(results.ping)
        neg == NegativeCheck(d, u, p)
        max_reasonable_bps == (cfg.max_reasonable_speed_gbps * BitsPerGbps) \div 10
    IN  IF neg = "raise" THEN [valid |-> FALSE, warnings |-> <<MsgBadStructure>>]
        ELSE IF neg = "yes" THEN [valid |-> FALSE, warnings |-> <<MsgNegative>>]
        ELSE IF d.val > max_reasonable_bps \/ u.val > max_reasonable_bps
             THEN [valid |-> FALSE, warnings |-> <<MsgExtremeSpeed>>]
        ELSE [valid |-> TRUE, warnings |-> SoftWarnings(cfg, d.val, u.val, p.val)]

ValidateResultsFirstSoftOnly(cfg, results) ==
    LET d == GetOrZero(results.download)
        u == GetOrZero(results.upload)
        p == GetOrZero(results.ping)
        neg == NegativeCheck(d, u, p)
        max_reasonable_bps == (cfg.max_reasonable_speed_gbps * BitsPerGbps) \div 10
        soft == SoftWarnings(cfg, d.val, u.val, p.val)
    IN  IF neg = "raise" THEN [valid |-> FALSE, warnings |-> <<MsgBadStructure>>]
        ELSE IF neg = "yes" THEN [valid |-> FALSE, warnings |-> <<MsgNegative>>]
        ELSE IF d.val > max_reasonable_bps \/ u.val > max_reasonable_bps
             THEN [valid |-> FALSE, warnings |-> <<MsgExtremeSpeed>>]
        ELSE IF p.val > cfg.max_reasonable_ping_ms
             THEN [valid |-> FALSE, warnings |-> <<MsgExtremePing>>]
        ELSE [valid |-> TRUE,
              warnings |-> IF soft = <<>> THEN <<>> ELSE <<Head(soft)>>]

ValidateResults(cfg, results) ==
    LET d == GetOrZero(results.download)
        u == GetOrZero(results.upload)
        p == GetOrZero(results.ping)
        neg == NegativeCheck(d, u, p)
        max_reasonable_bps == (cfg.max_reasonable_speed_gbps * BitsPerGbps) \div 10
    IN  IF neg = "raise" THEN [valid |-> FALSE, warnings |-> <<MsgBadStructure>>]
        ELSE IF neg = "yes" THEN [valid |-> FALSE, warnings |-> <<MsgNegative>>]
        ELSE IF d.val > max_reasonable_bps \/ u.val > max_reasonable_bps
             THEN [valid |-> FALSE, warnings |-> <<MsgExtremeSpeed>>]
        ELSE IF p.val > cfg.max_reasonable_ping_ms
             THEN [valid |-> FALSE, warnings |-> <<MsgExtremePing>>]
        ELSE [valid |-> TRUE, warnings |-> SoftWarnings(cfg, d.val, u.val, p.val)]

(***************************************************************************)
(* SpeedTestResult and the results the engine builds.                      *)
(***************************************************************************)
\* raw / bits_to_mbps, kept as an exact fraction
Mbps(raw, bits_to_mbps) == [num |-> raw, den |-> bits_to_mbps]

SpeedTestResult(down, up, ping, server, valid, warnings, cancelled) ==
    [ download_mbps |-> down,
      upload_mbps   |-> up,
      ping_ms       |-> ping,
      server_info   |-> server,
      is_valid      |-> valid,
      warnings      |-> warnings,
      is_cancelled  |-> cancelled ]

\* SpeedTestResult(warnings=[...]): every other field at its default
\* an except clause that returns SpeedTestResult() with no warning
FailureResultNoWarning(warning) ==
    SpeedTestResult(Mbps(0, 1), Mbps(0, 1), Num(0), "", FALSE, <<>>, FALSE)

FailureResult(warning) ==
    SpeedTestResult(Mbps(0, 1), Mbps(0, 1), Num(0), "", FALSE, <<warning>>, FALSE)

CancelledResult ==
    SpeedTestResult(Mbps(0, 1), Mbps(0, 1), Num(0), "", FALSE, <<MsgCancelled>>, TRUE)

MsgAllRetriesFailed == <<"All", "retry", "attempts", "failed">>

\* no result yet (the local variable is unbound)
NoResult ==
    SpeedTestResult(Mbps(0, 1), Mbps(0, 1), Num(0), "unset", FALSE, <<>>, FALSE)

(***************************************************************************)
(* The exceptions a provider call can raise, and the except clauses of     *)
(* run_speed_test that turn each into a failure result.                    *)
(***************************************************************************)
Exc(type, msg) == [type |-> type, msg |-> msg]

ExcConfigRetrieval == Exc("ConfigRetrievalError", <<>>)

ExcNoMatchedServers == Exc("NoMatchedServers", <<>>)

ExcTimeout == Exc("SpeedtestException", <<"HTTP", "Timeout">>)

ExcInvalidInput == Exc("SpeedtestException", <<"invalid", "input">>)

ExcFileno == Exc("AttributeError", <<"no", "attribute", "fileno">>)

ExcAttribute == Exc("AttributeError", <<"no", "attribute", "dict">>)

ExcNetwork == Exc("OSError", <<"Network", "is", "unreachable">>)

ExcTypeError == Exc("TypeError", <<"unsupported", "operand", "type(s)">>)

\* what each provider call is let to raise
StageExceptions(s) ==
    CASE s = 1 -> {ExcConfigRetrieval, ExcFileno}
      [] s = 2 -> {ExcNoMatchedServers, ExcTimeout}
      [] s = 3 -> {ExcInvalidInput, ExcNetwork}
      [] s = 4 -> {ExcTimeout, ExcNetwork}
      [] s = 5 -> {ExcInvalidInput, ExcNetwork}
      [] OTHER -> {ExcAttribute}

ExceptionWarning(e) ==
    CASE e.type = "ConfigRetrievalError" ->
            <<"Unable", "to", "retrieve", "speedtest", "configuration">>
      [] e.type = "NoMatchedServers" ->
            <<"No", "speedtest", "servers", "found">>
      [] e.type = "SpeedtestException" ->
            <<"Speedtest", "error:">> \o e.msg
      [] e.type = "AttributeError" ->
            IF \E i \in 1..Len(e.msg) :
                  Lower(e.msg[i]) \in {"fileno", "stderr", "stdout"}
            THEN <<"Python", "3.13", "compatibility", "error:">> \o e.msg
            ELSE <<"Unexpected", "AttributeError:">> \o e.msg
                     \o <<"Check", "logs", "for", "details.">>
      [] OTHER -> <<"Unexpected", "error:">> \o e.msg

(***************************************************************************)
(* run_speed_test: the six stages, each a progress notification, a         *)
(* cancellation check and a provider call.                                 *)
(***************************************************************************)
StageLabel(s) ==
    CASE s = 1 -> "Initializing speed test..."
      [] s = 2 -> "Fetching server list..."
      [] s = 3 -> "Selecting best server..."
      [] s = 4 -> "Testing download speed..."
      [] s = 5 -> "Testing upload speed..."
      [] OTHER -> "Processing results..."

StageCall(s) ==
    CASE s = 1 -> "create_client"
      [] s = 2 -> "get_servers"
      [] s = 3 -> "get_best_server"
      [] s = 4 -> "download"
      [] s = 5 -> "upload"
      [] OTHER -> "results"

\* the raw results the provider is let to report
ProviderResults ==
    { [download |-> Num(5000),  upload |-> Num(1000), ping |-> Num(20)],
      [download |-> Num(5),     upload |-> Num(3),    ping |-> Num(2000)],
      [download |-> Num(-1),    upload |-> Num(1000), ping |-> Num(20)],
      [download |-> Num(5000),  upload |-> Num(1000), ping |-> Num(15000)],
      [download |-> NotANumber, upload |-> Num(1000), ping |-> Num(20)],
      [download |-> Num(5000),  upload |-> Num(1000), ping |-> NotANumber] }

(***************************************************************************)
(* run_speed_test_with_retry: classification and backoff.                  *)
(***************************************************************************)
retryable_errors ==
    { <<"unable", "to", "retrieve">>, <<"no", "speedtest", "servers">>,
      <<"connection">>, <<"timeout">>, <<"network">> }

ContainsAny(msg, phrases) == \E ph \in phrases : ContainsPhrase(msg, ph)

IsRetryableNever(warning) == FALSE

\* any(err in result.warnings[0].lower() for err in retryable_errors)
IsRetryable(warning) == ContainsAny(LowerMsg(warning), retryable_errors)

\* the values random.uniform(0, backoff * 0.1) is let to take: 0, 5%, 10%
JitterSteps == {0, 1, 2}

BackoffDelayNoCap(base_delay, attempt, j) ==
    LET backoff == base_delay * Pow2(attempt) * 100
    IN  backoff + (backoff * j) \div 20

\* min(base_delay * 2^attempt + jitter, 30), in hundredths of a second
BackoffDelay(base_delay, attempt, j) ==
    LET backoff == base_delay * Pow2(attempt) * 100
        jitter  == (backoff * j) \div 20
    IN  Min(backoff + jitter, MaxDelay * 100)

(***************************************************************************)
(* State.                                                                  *)
(***************************************************************************)
VARIABLES
    cfg,           \* the engine's configuration (self.config)
    cancel_event,  \* self._cancel_event
    pc,            \* where the worker is in run_speed_test_with_retry
    stage,         \* the stage of run_speed_test the worker is in (1..6)
    attempt,       \* the loop index of run_speed_test_with_retry
    client,        \* speedtest_client: "none", "open" or "released"
    result,        \* the result of the attempt just made
    ret,           \* what run_speed_test_with_retry returned
    remaining,     \* what is left of time.sleep(delay)
    notified,      \* progress notifications of this loop iteration
    calls,         \* provider calls of this run_speed_test, in order
    checks,        \* the signal as each cancellation check of this run met it
    cancel_at,     \* where the worker was when the signal was set in this run
    attempt_log,   \* the outcome of each attempt of this call
    delays,        \* the delays slept by this call
    cancel_calls,  \* cancel_test() calls since this call began
    runs,          \* run_speed_test_with_retry calls begun
    raised,        \* the exception this run_speed_test met, if any
    raw,           \* what results.dict() gave this run_speed_test, if reached
    cb_failed,     \* a progress callback raised in this loop iteration
    release_error, \* speedtest_client.close() raised in the finally clause
    v_cfg,         \* validate_results alone: its configuration,
    v_results,     \*   its argument
    v_out          \*   and what it returned

engine_vars ==
    <<cfg, cancel_event, pc, stage, attempt, client, result, ret, remaining,
      notified, calls, checks, cancel_at, attempt_log, delays, cancel_calls,
      runs, raised, raw, cb_failed, release_error>>

validate_vars == <<v_cfg, v_results, v_out>>

\* ScheduledTestRunner, its loop workers and the clocks they read
VARIABLES
    interval_minutes,     \* self.interval_minutes
    running,              \* self._running
    stop_event,           \* self._stop_event
    thread,               \* self._thread: the worker last started, 0 for None
    next_test_time,       \* self._next_test_time (wall clock)
    next_test_monotonic,  \* self._next_test_monotonic
    tests_completed,      \* self.tests_completed
    tests_failed,         \* self.tests_failed
    start_time,           \* self.start_time (wall clock)
    start_monotonic,      \* self.start_monotonic
    mono,                 \* time.monotonic(), in seconds
    main_pc,              \* the controlling thread: "ready" or "joining"
    wpc,                  \* each worker's position in _scheduler_loop
    current_monotonic,    \* each worker's local current_monotonic
    wake_at,              \* when each worker's _stop_event.wait times out
    test_log,             \* the _run_scheduled_test that ended in the last step
    store_log,            \* the results handed to storage.save_result
    executions,           \* _run_scheduled_test calls begun
    last_op               \* the last start_scheduler/stop_scheduler call

scheduler_fields ==
    <<running, stop_event, thread, next_test_time, next_test_monotonic,
      start_time, start_monotonic>>

statistics == <<tests_completed, tests_failed>>

worker_vars == <<wpc, current_monotonic, wake_at>>

sched_vars ==
    <<interval_minutes, scheduler_fields, statistics, mono, main_pc,
      worker_vars, test_log, store_log, executions, last_op>>

(***************************************************************************)
(* AsyncSpeedTestRunner: the fields of __init__, the position of the       *)
(* background thread and what the last calls returned.                     *)
(***************************************************************************)
VARIABLES
    runner_thread,    \* self._thread: 0 for None, else the number of the test
    a_pc,             \* where each thread that start_test started is, in order
    a_local,          \* the local variable result of each _run_test_thread
    a_op,             \* what the last start_test call did
    result_queue,     \* self._result_queue, a Queue(maxsize=1)
    progress_queue,   \* number of updates in self._progress_queue
    cancel_requested, \* the engine's cancel event, as the runner sets it
    got               \* what the last get_result returned

async_vars ==
    <<runner_thread, a_pc, a_local, a_op, result_queue, progress_queue,
      cancel_requested, got>>

(***************************************************************************)
(* SpeedTestConfig: the file at config_file, the object's config and what  *)
(* constructing it and create_sample_config did last.                      *)
(***************************************************************************)
VARIABLES
    config_file,   \* what is on disk at self.config_file
    config,        \* self.config
    constructed,   \* SpeedTestConfig(...) returned an object
    load_raised,   \* the exception that left the constructor, or "none"
    loaded_from,   \* the file contents the constructor last met
    sample_ret,    \* what the last create_sample_config returned
    sample_calls   \* number of create_sample_config calls

config_vars ==
    <<config_file, config, constructed, load_raised, loaded_from,
      sample_ret, sample_calls>>

(***************************************************************************)
(* TestResultStorage: the test_results table, the AUTOINCREMENT sequence   *)
(* of its id column, the clock, a running export and what the last call    *)
(* returned.                                                               *)
(***************************************************************************)
VARIABLES
    table,          \* the rows of test_results
    sqlite_seq,     \* the largest id the table ever assigned
    assigned,       \* every id a save_result has returned
    today,          \* datetime.now(), in days
    store_ret,      \* what the call of the last step returned
    export_pc,      \* "idle", "running" or "done"
    export_args,    \* days, batch_size and the clock at the call
    export_offset,  \* the local variable offset
    export_out,     \* the records gathered for the file so far
    conn,           \* self._conn: 0 for None, else the connection's number
    connections     \* every sqlite3 connection made so far: "open", "closed"

store_vars ==
    <<table, sqlite_seq, assigned, today, store_ret, export_pc, export_args,
      export_offset, export_out, conn, connections>>

(***************************************************************************)
(* The one-shot command lines: sp.py, and scheduled_testing.py with        *)
(* --immediate or --create-config.                                         *)
(***************************************************************************)
VARIABLES
    sys_argv,      \* the program and its option
    cli_pc,        \* where main() is
    cli_log,       \* the calls main() has made and what each met, in order
    exit_code      \* what main() returned to sys.exit: -1 before it ends

cli_vars == <<sys_argv, cli_pc, cli_log, exit_code>>

service_vars == <<async_vars, config_vars, store_vars, cli_vars>>

vars == <<engine_vars, validate_vars, sched_vars, service_vars>>

NotCancelledYet == [pc |-> "none", stage |-> 0]

NoOutput == [valid |-> FALSE, warnings |-> <<>>]

\* no exception so far in this run_speed_test
NoExc == Exc("none", <<>>)

\* results.dict() not reached so far in this run_speed_test
NoRaw == [download |-> Missing, upload |-> Missing, ping |-> Missing,
          reached |-> FALSE]

\* an exception raised by the progress callback the caller registered
ExcCallback == Exc("RuntimeError", <<"callback", "failed">>)

RetryDelays == {1, 2, 16, 30}

EngineConfigs ==
    { [DEFAULT_CONFIG EXCEPT !.max_retries = m, !.retry_delay = b] :
        m \in 1..MaxRetriesBound, b \in RetryDelays }

EngineIdle ==
    /\ cancel_event = FALSE
    /\ pc = "idle"
    /\ stage = 0
    /\ attempt = 0
    /\ client = "none"
    /\ result = NoResult
    /\ ret = NoResult
    /\ remaining = 0
    /\ notified = <<>>
    /\ calls = <<>>
    /\ checks = <<>>
    /\ cancel_at = NotCancelledYet
    /\ attempt_log = <<>>
    /\ delays = <<>>
    /\ cancel_calls = 0
    /\ runs = 0
    /\ raised = NoExc
    /\ raw = NoRaw
    /\ cb_failed = FALSE
    /\ release_error = FALSE

ValidateIdle ==
    /\ v_cfg = DEFAULT_CONFIG
    /\ v_results = [download |-> Missing, upload |-> Missing, ping |-> Missing]
    /\ v_out = NoOutput

\* the workers a ScheduledTestRunner is let to start
MaxWorkers == 2

WorkerIds == 1..MaxWorkers

\* Optional[...] fields: None, or a value
Nothing == [kind |-> "none", val |-> 0]

Some(n) == [kind |-> "some", val |-> n]

\* the results run_speed_test_with_retry is let to return to the scheduler
ValidResult == [is_valid |-> TRUE, is_cancelled |-> FALSE]

InvalidResult == [is_valid |-> FALSE, is_cancelled |-> FALSE]

CancelledTest == [is_valid |-> FALSE, is_cancelled |-> TRUE]

\* what the collaborators of one _run_scheduled_test do: the connectivity
\* check ("ok", "down", "raise"), the retry-controlled test (raises, or
\* returns result), storage.save_result, and the result callback ("none"
\* when no callback was given, "ok", "raise")
Path(connectivity, test_raises, returned, save_raises, callback) ==
    [connectivity |-> connectivity, test_raises |-> test_raises,
     result |-> returned, save_raises |-> save_raises, callback |-> callback]

NoPath == Path("none", FALSE, InvalidResult, FALSE, "none")

\* no _run_scheduled_test so far
NoTest == [worker |-> 0, path |-> NoPath, saves |-> 0, completed |-> 0,
           failed |-> 0, exception |-> "none"]

\* ScheduledTestRunner.__init__, with no worker started
SchedulerConstructed ==
    /\ running = FALSE
    /\ stop_event = FALSE
    /\ thread = 0
    /\ next_test_time = Nothing
    /\ next_test_monotonic = Nothing
    /\ tests_completed = 0
    /\ tests_failed = 0
    /\ start_time = Nothing
    /\ start_monotonic = Nothing
    /\ main_pc = "ready"
    /\ wpc = [w \in WorkerIds |-> "unborn"]
    /\ current_monotonic = [w \in WorkerIds |-> 0]
    /\ wake_at = [w \in WorkerIds |-> 0]
    /\ test_log = NoTest
    /\ store_log = <<>>
    /\ executions = 0
    /\ last_op = "none"

SchedIdle ==
    /\ interval_minutes = 60
    /\ mono = 30
    /\ SchedulerConstructed

\* AsyncSpeedTestRunner.__init__
AsyncIdle ==
    /\ runner_thread = 0
    /\ a_pc = <<>>
    /\ a_local = <<>>
    /\ a_op = "none"
    /\ result_queue = <<>>
    /\ progress_queue = 0
    /\ cancel_requested = FALSE
    /\ got = Nothing

(***************************************************************************)
(* Values as json.load yields them and as self.config holds them: numbers  *)
(* in the units of DEFAULT_CONFIG, booleans as 1 and 0 under their own     *)
(* kind, and anything else (a string, a list, null) as "other".            *)
(***************************************************************************)
JNum(n) == [kind |-> "num", val |-> n]

JBool(b) == [kind |-> "bool", val |-> IF b THEN 1 ELSE 0]

JOther == [kind |-> "other", val |-> 0]

Absent == [kind |-> "absent", val |-> 0]

BoolKeys == {"show_detailed_progress", "save_results_to_database"}

ConfigKeys == DOMAIN DEFAULT_CONFIG

\* a key that is not in DEFAULT_CONFIG
UnknownKey == "favourite_server"

FileKeys == ConfigKeys \cup {UnknownKey}

\* DEFAULT_CONFIG[key] as a value of self.config
DefaultValue(key) ==
    IF key \in BoolKeys THEN JBool(DEFAULT_CONFIG[key])
    ELSE JNum(DEFAULT_CONFIG[key])

\* self.DEFAULT_CONFIG.copy()
DefaultsCopy == [k \in ConfigKeys |-> DefaultValue(k)]

\* the JSON object {}
NoFields == [k \in {} |-> Absent]

\* dict.get(key), Absent for a key that is not there
Get(dict, key) == IF key \in DOMAIN dict THEN dict[key] ELSE Absent

\* the dict of the keys that have a value
Dict(f) == [k \in {x \in DOMAIN f : f[x] # Absent} |-> f[k]]

\* the fields of a file, Absent for the keys it does not give
Fields(file) == [k \in FileKeys |-> Get(file.fields, k)]

\* the kinds of thing at a path: no file, a file that cannot be opened or
\* read, text that is not JSON, bytes that are not text, JSON that is not
\* an object, and a JSON object
FileOf(kind) == [kind |-> kind, fields |-> NoFields]

FileMissing == FileOf("missing")

FileObject(fields) == [kind |-> "object", fields |-> fields]

NeverLoaded == FileOf("never")

\* before any SpeedTestConfig is constructed
ConfigIdle ==
    /\ config_file = FileMissing
    /\ config = NoFields
    /\ constructed = FALSE
    /\ load_raised = "none"
    /\ loaded_from = NeverLoaded
    /\ sample_ret = "none"
    /\ sample_calls = 0

NoRet == [op |-> "none"]

NoExport == [days |-> Nothing, batch_size |-> 0, called_at |-> 0]

\* TestResultStorage.__init__ on a new database file
StoreIdle ==
    /\ table = {}
    /\ sqlite_seq = 0
    /\ assigned = {}
    /\ today = 0
    /\ store_ret = NoRet
    /\ export_pc = "idle"
    /\ export_args = NoExport
    /\ export_offset = 0
    /\ export_out = <<>>
    /\ conn = 0
    /\ connections = <<>>

\* no command line has been started
CliIdle ==
    /\ sys_argv = ""
    /\ cli_pc = "start"
    /\ cli_log = <<>>
    /\ exit_code = -1

ServiceIdle ==
    /\ AsyncIdle
    /\ ConfigIdle
    /\ StoreIdle
    /\ CliIdle

\* SpeedTestEngine.__init__
Init ==
    /\ cfg \in EngineConfigs
    /\ EngineIdle
    /\ ValidateIdle
    /\ SchedIdle
    /\ ServiceIdle

Note(label) == [label |-> label, after_cancel |-> cancel_event]

\* what an attempt's result is, for the record of attempts
Outcome(r) ==
    IF r.is_valid THEN "valid"
    ELSE IF r.is_cancelled THEN "cancelled"
    ELSE IF r.warnings # <<>>
            /\ ContainsAny(LowerMsg(r.warnings[1]), retryable_errors)
         THEN "failed_keyword"
    ELSE "failed_other"

\* a finally clause that leaves the client as it is
FinallyForgets(c) == c

\* the finally clause of run_speed_test
Finally(c) == IF c = "open" THEN "released" ELSE c

\* single-argument form of self._cancel_event.is_set() at a checkpoint
CancelObservedNotBeforeUpload(s) == s # 5 /\ cancel_event

CancelObserved(s) == cancel_event

\* _update_progress with a callback that raises and no try around the call
ProgressErrorEscapesAlways(raises) == raises

\* _update_progress: try: self._progress_callback(...) except Exception: print
ProgressErrorEscapes(raises) == FALSE

\* the finally clause: try: speedtest_client.close() except Exception: print
CleanupErrorEscapes(raises) == FALSE

(***************************************************************************)
(* cancel_test(), from any other thread at any moment.                     *)
(***************************************************************************)
CancelTest ==
    /\ cancel_calls < MaxCancelCalls
    /\ cancel_event' = TRUE
    /\ cancel_calls' = cancel_calls + 1
    /\ cancel_at' = IF pc \in {"notify", "check", "call"} /\ ~cancel_event
                    THEN [pc |-> pc, stage |-> stage]
                    ELSE cancel_at
    /\ UNCHANGED <<cfg, pc, stage, attempt, client, result, ret, remaining,
                   notified, calls, checks, attempt_log, delays, runs>>
    /\ UNCHANGED <<raised, raw, cb_failed, release_error>>
    /\ UNCHANGED <<validate_vars, sched_vars, service_vars>>

(***************************************************************************)
(* run_speed_test_with_retry.                                              *)
(***************************************************************************)
\* the call begins: max_retries and base_delay are read
StartRetry ==
    /\ pc \in {"idle", "returned"}
    /\ runs < MaxRuns
    /\ runs' = runs + 1
    /\ pc' = "retry_check"
    /\ attempt' = 0
    /\ stage' = 0
    /\ client' = "none"
    /\ result' = NoResult
    /\ ret' = NoResult
    /\ remaining' = 0
    /\ notified' = <<>>
    /\ calls' = <<>>
    /\ checks' = <<>>
    /\ cancel_at' = NotCancelledYet
    /\ attempt_log' = <<>>
    /\ delays' = <<>>
    /\ cancel_calls' = 0
    /\ raised' = NoExc
    /\ raw' = NoRaw
    /\ cb_failed' = FALSE
    /\ release_error' = FALSE
    /\ UNCHANGED <<cfg, cancel_event>>
    /\ UNCHANGED <<validate_vars, sched_vars, service_vars>>

\* the head of the loop: the check of the signal and the "Attempt" notice
RetryCheck ==
    /\ pc = "retry_check"
    /\ IF cancel_event
       THEN /\ ret' = CancelledResult
            /\ pc' = "returned"
            /\ UNCHANGED <<notified, cb_failed>>
       ELSE /\ notified' = <<Note("Attempt " \o ToString(attempt + 1) \o "/"
                                     \o ToString(cfg.max_retries))>>
            /\ \E raises \in BOOLEAN :
                  /\ cb_failed' = raises
                  /\ pc' = IF ProgressErrorEscapes(raises)
                           THEN "raised" ELSE "clear"
            /\ UNCHANGED ret
    /\ UNCHANGED <<cfg, cancel_event, stage, attempt, client, result,
                   remaining, calls, checks, cancel_at, attempt_log, delays,
                   cancel_calls, runs, raised, raw, release_error>>
    /\ UNCHANGED <<validate_vars, sched_vars, service_vars>>

(***************************************************************************)
(* run_speed_test.                                                         *)
(***************************************************************************)
\* self._cancel_event.clear(); speedtest_client = None
ClearCancel ==
    /\ pc = "clear"
    /\ cancel_event' = FALSE
    /\ client' = "none"
    /\ calls' = <<>>
    /\ checks' = <<>>
    /\ cancel_at' = NotCancelledYet
    /\ stage' = 1
    /\ pc' = "notify"
    /\ raised' = NoExc
    /\ raw' = NoRaw
    /\ release_error' = FALSE
    /\ UNCHANGED <<cfg, attempt, result, ret, remaining, notified,
                   attempt_log, delays, cancel_calls, runs, cb_failed>>
    /\ UNCHANGED <<validate_vars, sched_vars, service_vars>>

\* run_speed_test returns r: the finally clause runs (the client's close()
\* may raise), the caller binds result
ReturnFromAttempt(r) ==
    /\ client' = Finally(client)
    /\ \E err \in BOOLEAN :
          /\ release_error' = (err /\ client = "open")
          /\ IF CleanupErrorEscapes(err /\ client = "open")
             THEN /\ pc' = "raised"
                  /\ UNCHANGED <<result, attempt_log>>
             ELSE /\ result' = r
                  /\ attempt_log' = Append(attempt_log, Outcome(r))
                  /\ pc' = "after_attempt"

\* self._update_progress(label, fraction) of the stage; an exception that
\* left _update_progress would meet the except clauses of run_speed_test
Notify ==
    /\ pc = "notify"
    /\ notified' = Append(notified, Note(StageLabel(stage)))
    /\ \E raises \in BOOLEAN :
          /\ cb_failed' = (cb_failed \/ raises)
          /\ IF ProgressErrorEscapes(raises)
             THEN ReturnFromAttempt(
                      FailureResult(ExceptionWarning(ExcCallback)))
             ELSE /\ pc' = "check"
                  /\ UNCHANGED <<client, result, attempt_log, release_error>>
    /\ UNCHANGED <<cfg, cancel_event, stage, attempt, ret, remaining, calls,
                   checks, cancel_at, delays, cancel_calls, runs, raised, raw>>
    /\ UNCHANGED <<validate_vars, sched_vars, service_vars>>

\* if self._cancel_event.is_set(): return SpeedTestResult(is_cancelled=True, ...)
CheckCancel ==
    /\ pc = "check"
    /\ checks' = Append(checks, cancel_event)
    /\ IF CancelObserved(stage)
       THEN /\ ReturnFromAttempt(CancelledResult)
       ELSE /\ pc' = "call"
            /\ UNCHANGED <<result, client, attempt_log, release_error>>
    /\ UNCHANGED <<cfg, cancel_event, stage, attempt, ret, remaining,
                   notified, calls, cancel_at, delays, cancel_calls, runs,
                   raised, raw, cb_failed>>
    /\ UNCHANGED <<validate_vars, sched_vars, service_vars>>

\* a provider call of stages 1..5 that returns
ProviderCall ==
    /\ pc = "call"
    /\ stage < 6
    /\ calls' = Append(calls, StageCall(stage))
    /\ client' = "open"
    /\ stage' = stage + 1
    /\ pc' = "notify"
    /\ UNCHANGED <<cfg, cancel_event, attempt, result, ret, remaining,
                   notified, checks, cancel_at, attempt_log, delays,
                   cancel_calls, runs>>
    /\ UNCHANGED <<raised, raw, cb_failed, release_error>>
    /\ UNCHANGED <<validate_vars, sched_vars, service_vars>>

\* a provider call that raises: the except clauses build the failure result
ProviderRaise ==
    /\ pc = "call"
    /\ \E e \in StageExceptions(stage) :
          /\ raised' = e
          /\ ReturnFromAttempt(FailureResult(ExceptionWarning(e)))
    /\ calls' = Append(calls, StageCall(stage))
    /\ UNCHANGED <<cfg, cancel_event, stage, attempt, ret, remaining,
                   notified, checks, cancel_at, delays, cancel_calls, runs,
                   raw, cb_failed>>
    /\ UNCHANGED <<validate_vars, sched_vars, service_vars>>

\* results.dict(), the conversion to Mbps, validate_results, "Test completed!"
ExtractResults ==
    /\ pc = "call"
    /\ stage = 6
    /\ calls' = Append(calls, StageCall(stage))
    /\ \E m \in ProviderResults :
          LET d == GetOrZero(m.download)
              u == GetOrZero(m.upload)
              v == ValidateResults(cfg, m)
          IN  /\ raw' = [download |-> m.download, upload |-> m.upload,
                         ping |-> m.ping, reached |-> TRUE]
              /\ IF ~IsNumber(d) \/ ~IsNumber(u)
                 THEN /\ raised' = ExcTypeError
                      /\ ReturnFromAttempt(
                             FailureResult(ExceptionWarning(ExcTypeError)))
                      /\ UNCHANGED <<notified, cb_failed>>
                 ELSE /\ notified' =
                             Append(notified, Note("Test completed!"))
                      /\ UNCHANGED raised
                      /\ \E raises \in BOOLEAN :
                            /\ cb_failed' = (cb_failed \/ raises)
                            /\ ReturnFromAttempt(
                                  IF ProgressErrorEscapes(raises)
                                  THEN FailureResult(
                                          ExceptionWarning(ExcCallback))
                                  ELSE SpeedTestResult(
                                          Mbps(d.val, cfg.bits_to_mbps),
                                          Mbps(u.val, cfg.bits_to_mbps),
                                          GetOrZero(m.ping),
                                          "Sponsor (Name)",
                                          v.valid, v.warnings, FALSE))
    /\ UNCHANGED <<cfg, cancel_event, stage, attempt, ret, remaining,
                   checks, cancel_at, delays, cancel_calls, runs>>
    /\ UNCHANGED <<validate_vars, sched_vars, service_vars>>

(***************************************************************************)
(* run_speed_test_with_retry, after the attempt.                           *)
(***************************************************************************)
\* f"{delay:.1f}" of a delay in hundredths of a second
FormatSeconds(cs) ==
    LET tenths == (cs + 5) \div 10
    IN  ToString(tenths \div 10) \o "." \o ToString(tenths % 10)

StopsRetryingOnCancelOnly(r) == cancel_event

\* if result.is_valid or self._cancel_event.is_set(): return result
StopsRetrying(r) == r.is_valid \/ cancel_event

\* not is_retryable or attempt == max_retries - 1
GivesUp(r) ==
    \/ ~IsRetryable(r.warnings[1])
    \/ attempt = cfg.max_retries - 1

\* the attempt was valid, or the signal is set: the result is returned
ReturnAttemptResult ==
    /\ pc = "after_attempt"
    /\ StopsRetrying(result)
    /\ ret' = result
    /\ pc' = "returned"
    /\ UNCHANGED <<cfg, cancel_event, stage, attempt, client, result,
                   remaining, notified, calls, checks, cancel_at,
                   attempt_log, delays, cancel_calls, runs>>
    /\ UNCHANGED <<raised, raw, cb_failed, release_error>>
    /\ UNCHANGED <<validate_vars, sched_vars, service_vars>>

\* the failure is not retryable, or this was the last attempt
ReturnFailure ==
    /\ pc = "after_attempt"
    /\ ~StopsRetrying(result)
    /\ result.warnings # <<>>
    /\ GivesUp(result)
    /\ ret' = result
    /\ pc' = "returned"
    /\ UNCHANGED <<cfg, cancel_event, stage, attempt, client, result,
                   remaining, notified, calls, checks, cancel_at,
                   attempt_log, delays, cancel_calls, runs>>
    /\ UNCHANGED <<raised, raw, cb_failed, release_error>>
    /\ UNCHANGED <<validate_vars, sched_vars, service_vars>>

\* the end of a loop iteration: the next one, or the return after the loop
NextIteration ==
    IF attempt + 1 < cfg.max_retries
    THEN /\ attempt' = attempt + 1
         /\ pc' = "retry_check"
         /\ UNCHANGED ret
    ELSE /\ ret' = FailureResult(MsgAllRetriesFailed)
         /\ pc' = "returned"
         /\ UNCHANGED attempt

\* a retryable failure: the delay is computed and announced, the sleep begins
\* (a failure without warnings goes to the next iteration without a sleep).
\* The attempt is over: its result is not read again, and the record of its
\* calls and checks is dropped.
Backoff ==
    /\ pc = "after_attempt"
    /\ ~StopsRetrying(result)
    /\ IF result.warnings = <<>>
       THEN /\ NextIteration
            /\ cb_failed' = FALSE
            /\ UNCHANGED <<delays, remaining, notified>>
       ELSE /\ ~GivesUp(result)
            /\ \E j \in JitterSteps :
                  LET delay == BackoffDelay(cfg.retry_delay, attempt, j)
                  IN  /\ delays' = Append(delays, delay)
                      /\ remaining' = delay
                      /\ notified' =
                            <<Note("Retrying in " \o FormatSeconds(delay)
                                       \o " seconds...")>>
            /\ \E raises \in BOOLEAN :
                  /\ cb_failed' = raises
                  /\ pc' = IF ProgressErrorEscapes(raises)
                           THEN "raised" ELSE "sleep"
            /\ UNCHANGED <<attempt, ret>>
    /\ result' = NoResult
    /\ calls' = <<>>
    /\ checks' = <<>>
    /\ cancel_at' = NotCancelledYet
    /\ raised' = NoExc
    /\ raw' = NoRaw
    /\ release_error' = FALSE
    /\ UNCHANGED <<cfg, cancel_event, stage, client, attempt_log,
                   cancel_calls, runs>>
    /\ UNCHANGED <<validate_vars, sched_vars, service_vars>>

\* one second of time.sleep(delay) goes by
SleepTick ==
    /\ pc = "sleep"
    /\ remaining > 0
    /\ remaining' = Max(remaining - 100, 0)
    /\ UNCHANGED <<cfg, cancel_event, pc, stage, attempt, client, result,
                   ret, notified, calls, checks, cancel_at, attempt_log,
                   delays, cancel_calls, runs>>
    /\ UNCHANGED <<raised, raw, cb_failed, release_error>>
    /\ UNCHANGED <<validate_vars, sched_vars, service_vars>>

\* time.sleep(delay) returns
WakeUp ==
    /\ pc = "sleep"
    /\ remaining = 0
    /\ NextIteration
    /\ UNCHANGED <<cfg, cancel_event, stage, client, result, remaining,
                   notified, calls, checks, cancel_at, attempt_log, delays,
                   cancel_calls, runs>>
    /\ UNCHANGED <<raised, raw, cb_failed, release_error>>
    /\ UNCHANGED <<validate_vars, sched_vars, service_vars>>

Next ==
    \/ CancelTest
    \/ StartRetry
    \/ RetryCheck
    \/ ClearCancel
    \/ Notify
    \/ CheckCancel
    \/ ProviderCall
    \/ ProviderRaise
    \/ ExtractResults
    \/ ReturnAttemptResult
    \/ ReturnFailure
    \/ Backoff
    \/ SleepTick
    \/ WakeUp

Spec == Init /\ [][Next]_vars

TypeOK ==
    /\ cancel_event \in BOOLEAN
    /\ pc \in {"idle", "retry_check", "clear", "notify", "check", "call",
               "after_attempt", "sleep", "returned", "raised"}
    /\ stage \in 0..6
    /\ attempt \in 0..(cfg.max_retries - 1)
    /\ client \in {"none", "open", "released"}
    /\ remaining \in 0..(MaxDelay * 100)
    /\ cb_failed \in BOOLEAN
    /\ release_error \in BOOLEAN

(***************************************************************************)
(* Properties of one attempt and of the retry controller.                  *)
(***************************************************************************)
ProviderOrder ==
    <<"create_client", "get_servers", "get_best_server", "download", "upload",
      "results">>

IsPrefix(a, b) == Len(a) <= Len(b) /\ SubSeq(b, 1, Len(a)) = a

\* run_speed_test has returned and its result is at hand
AttemptOver == pc \in {"after_attempt", "returned"} /\ result # NoResult

\* C1: when the signal is set while the provider download is running and
\* the download returns, the attempt's result has is_cancelled=true and
\* is_valid=false, and no "Testing upload speed..." or "Processing
\* results..." notification is emitted after the signal was set.
C1_CancelDuringDownload ==
    (cancel_at = [pc |-> "call", stage |-> 4] /\ stage >= 5) =>
        /\ \A i \in 1..Len(notified) :
              notified[i].after_cancel =>
                 notified[i].label \notin
                    {"Testing upload speed...", "Processing results..."}
        /\ AttemptOver => (result.is_cancelled /\ ~result.is_valid)

\* C2: within one run_speed_test the provider calls are made in the order
\* create-client, get_servers, get_best_server, download, upload (then the
\* results are read), each at most once; a call is made only after the check
\* before it met the signal unset; a check that meets the signal set is the
\* last step of the run: no further call, and the result is Cancelled.
C2_SequentialStages ==
    /\ IsPrefix(calls, ProviderOrder)
    /\ Len(calls) <= Len(checks)
    /\ \A k \in 1..Len(calls) : ~checks[k]
    /\ pc = "call" => (Len(checks) = stage /\ Len(calls) = stage - 1)
    /\ \A k \in 1..Len(checks) :
          checks[k] =>
             /\ k = Len(checks)
             /\ Len(calls) = k - 1
             /\ AttemptOver
             /\ result = CancelledResult

\* C2 witness: the check before the download met the signal set, after three
\* provider calls, and the run ended Cancelled
C2_Witness ==
    /\ pc = "after_attempt"
    /\ checks = <<FALSE, FALSE, FALSE, TRUE>>
    /\ calls = <<"create_client", "get_servers", "get_best_server">>
    /\ result.is_cancelled

\* C3: a signal set by cancel_test() while run_speed_test_with_retry is
\* executing is never discarded: it stays set until the call has returned.
C3_SignalNeverDiscarded ==
    [][(pc \notin {"idle", "returned"} /\ cancel_calls > 0 /\ cancel_event)
          => cancel_event']_vars

AllAttempts(kind) == \A i \in 1..Len(attempt_log) : attempt_log[i] = kind

\* C4: never more than max_retries attempts; a failed attempt whose first
\* warning has no retryable keyword is the last attempt (after the first
\* attempt, exactly one was made) and no wait follows it; absent
\* cancellation, a failed attempt whose first warning has a retryable keyword
\* is followed by another attempt unless it was attempt number max_retries.
C4_RetryClassification ==
    /\ Len(attempt_log) <= cfg.max_retries
    /\ \A i \in 1..Len(attempt_log) :
          attempt_log[i] = "failed_other" =>
             /\ i = Len(attempt_log)
             /\ pc \in {"after_attempt", "returned"}
             /\ Len(delays) = i - 1
    /\ (pc = "returned" /\ ~cancel_event) =>
          \A i \in 1..Len(attempt_log) :
             attempt_log[i] = "failed_keyword" =>
                (i < Len(attempt_log) \/ i = cfg.max_retries)

\* C4 witness: with max_retries = 3, two retryable failures were each
\* followed by another attempt and the third attempt, not retryable, ended
\* the call
C4_Witness ==
    /\ pc = "returned"
    /\ ~cancel_event
    /\ cfg.max_retries = 3
    /\ attempt_log = <<"failed_keyword", "failed_keyword", "failed_other">>

\* C5: when each of the max_retries attempts fails with a retryable error,
\* the call returns an invalid result whose warnings are exactly
\* ["All retry attempts failed"].
C5_AllRetriesFailedWarning ==
    (/\ pc = "returned"
     /\ ~cancel_event
     /\ Len(attempt_log) = cfg.max_retries
     /\ AllAttempts("failed_keyword")) =>
        (~ret.is_valid /\ ret.warnings = <<MsgAllRetriesFailed>>)

\* C6: once the signal is set during the backoff wait, the wait ends at the
\* next one-second tick: a second slept with the signal set is the last one,
\* no whole second of the delay is left to sleep after it.
C6_CancelInterruptsBackoff ==
    [][(pc = "sleep" /\ cancel_event /\ remaining' < remaining)
          => remaining' < 100]_vars

\* C7: an attempt that returns a valid or a cancelled result is the last
\* attempt, no backoff wait follows it, and the call returns that very result.
C7_ValidOrCancelledReturned ==
    \A i \in 1..Len(attempt_log) :
       attempt_log[i] \in {"valid", "cancelled"} =>
          /\ i = Len(attempt_log)
          /\ pc \in {"after_attempt", "returned"}
          /\ Len(delays) = i - 1
          /\ pc = "returned" => ret = result

\* C7 witness: a second attempt was valid, with a soft warning, and was
\* returned
C7_Witness ==
    /\ pc = "returned"
    /\ Len(attempt_log) = 2
    /\ attempt_log[2] = "valid"
    /\ ret.is_valid
    /\ ret.warnings # <<>>
    /\ ret.download_mbps = Mbps(5, 10)

\* C8: the delay after failed attempt k (0-based) is
\* min(base_delay * 2^k + jitter, 30) seconds with jitter between 0 and 10%
\* of base_delay * 2^k; no delay is over 30 seconds; each delay is greater
\* than the one before it unless it is the cap.
C8_BackoffDelays ==
    \A n \in 1..Len(delays) :
       LET backoff == cfg.retry_delay * (2 ^ (n - 1)) * 100
       IN  /\ \E jitter \in 0..(backoff \div 10) :
                 delays[n] = Min(backoff + jitter, 3000)
           /\ delays[n] <= 3000
           /\ n > 1 => (delays[n - 1] < delays[n] \/ delays[n] = 3000)

\* C8 witness: a first delay under the cap (16 s and its jitter), a second
\* delay at the cap
C8_Witness ==
    /\ Len(delays) = 2
    /\ delays[1] > 1600
    /\ delays[1] < 3000
    /\ delays[2] = 3000

(***************************************************************************)
(* validate_results on its own: every combination of the measurements and  *)
(* ceilings below is given to it once.                                     *)
(***************************************************************************)
SpeedInputs ==
    { Num(n) : n \in {-1, 0, 9, 10, 1000, 5000, 10000, 10001, 20000, 100000,
                     100001} }
        \cup {NotANumber, Missing}

PingInputs ==
    { Num(n) : n \in {-1, 0, 20, 1000, 1001, 10000, 10001, 15000} }
        \cup {NotANumber, Missing}

\* the defaults, lower ceilings, and a typical ceiling above the reasonable one
ValidateConfigs ==
    { DEFAULT_CONFIG,
      [DEFAULT_CONFIG EXCEPT !.max_typical_speed_gbps = 5,
                             !.max_reasonable_speed_gbps = 20,
                             !.max_typical_ping_ms = 50,
                             !.max_reasonable_ping_ms = 1000],
      [DEFAULT_CONFIG EXCEPT !.max_typical_speed_gbps = 50,
                             !.max_typical_ping_ms = 5000,
                             !.max_reasonable_ping_ms = 15000] }

InitValidate ==
    /\ cfg = DEFAULT_CONFIG
    /\ EngineIdle
    /\ v_cfg \in ValidateConfigs
    /\ v_results \in [download : SpeedInputs, upload : SpeedInputs,
                      ping : PingInputs]
    /\ v_out = NoOutput
    /\ SchedIdle
    /\ ServiceIdle

\* is_valid, warnings = self.validate_results(results)
Validate ==
    /\ v_out = NoOutput
    /\ v_out' = ValidateResults(v_cfg, v_results)
    /\ UNCHANGED <<v_cfg, v_results>>
    /\ UNCHANGED <<engine_vars, sched_vars, service_vars>>

NextValidate == Validate

SpecValidate == InitValidate /\ [][NextValidate]_vars

\* validate_results has returned
Validated == v_out # NoOutput

\* the three measurements as validate_results reads them, when all are numbers
AllNumeric ==
    /\ GetOrZero(v_results.download).kind = "num"
    /\ GetOrZero(v_results.upload).kind = "num"
    /\ GetOrZero(v_results.ping).kind = "num"

InDownload == GetOrZero(v_results.download).val

InUpload == GetOrZero(v_results.upload).val

InPing == GetOrZero(v_results.ping).val

AnyNegative == InDownload < 0 \/ InUpload < 0 \/ InPing < 0

\* a ceiling of n tenths of a Gbps is n * 1000 units of 100 kbit/s
SpeedOverReasonable ==
    \/ InDownload > v_cfg.max_reasonable_speed_gbps * 1000
    \/ InUpload > v_cfg.max_reasonable_speed_gbps * 1000

PingOverReasonable == InPing > v_cfg.max_reasonable_ping_ms

SpeedOverTypical ==
    \/ InDownload > v_cfg.max_typical_speed_gbps * 1000
    \/ InUpload > v_cfg.max_typical_speed_gbps * 1000

PingOverTypical == InPing > v_cfg.max_typical_ping_ms

BothBelowOneMbps == InDownload < 10 /\ InUpload < 10

HardFailure == AnyNegative \/ SpeedOverReasonable \/ PingOverReasonable

HasWords(msg, ws) == \A w \in ws : \E i \in 1..Len(msg) : msg[i] = w

\* the number of warnings whose first word is w
CountStarting(warnings, w) ==
    Cardinality({i \in 1..Len(warnings) : warnings[i][1] = w})

\* C9: for numeric measurements, validate_results returns valid=false with
\* exactly one warning exactly when a measurement is negative ("measurement
\* failed"), or a speed is over the reasonable speed ceiling, or the ping is
\* over the reasonable ping ceiling ("extremely high ... likely measurement
\* error"); negative wins over a ceiling, speed wins over ping; every other
\* numeric input is valid.
C9_HardFailures ==
    (Validated /\ AllNumeric) =>
        /\ v_out.valid = ~HardFailure
        /\ HardFailure => Len(v_out.warnings) = 1
        /\ AnyNegative =>
              HasWords(v_out.warnings[1], {"negative", "measurement", "failed"})
        /\ (~AnyNegative /\ SpeedOverReasonable) =>
              HasWords(v_out.warnings[1],
                       {"Extremely", "high", "speeds", "likely", "measurement", "error"})
        /\ (~AnyNegative /\ ~SpeedOverReasonable /\ PingOverReasonable) =>
              HasWords(v_out.warnings[1],
                       {"Extremely", "high", "ping", "likely", "measurement", "error"})

\* C9 witness: a ping over the reasonable ceiling alone (15000 ms against
\* 10000 ms) was rejected
C9_Witness ==
    /\ Validated
    /\ AllNumeric
    /\ v_cfg = DEFAULT_CONFIG
    /\ InPing = 15000
    /\ ~AnyNegative
    /\ ~SpeedOverReasonable
    /\ ~v_out.valid

\* C10: for numeric measurements that pass the hard checks the result is
\* valid and carries one warning for each soft condition that applies and
\* none for one that does not: a speed over the typical ceiling, the ping
\* over the typical ceiling, both speeds below 1 Mbps; 500/100 Mbps at 20 ms
\* under the default ceilings gives no warning.
C10_SoftWarnings ==
    (Validated /\ AllNumeric /\ ~HardFailure) =>
        /\ v_out.valid
        /\ CountStarting(v_out.warnings, "Unusually")
              = IF SpeedOverTypical THEN 1 ELSE 0
        /\ CountStarting(v_out.warnings, "High")
              = IF PingOverTypical THEN 1 ELSE 0
        /\ CountStarting(v_out.warnings, "Very")
              = IF BothBelowOneMbps THEN 1 ELSE 0
        /\ Len(v_out.warnings)
              = (IF SpeedOverTypical THEN 1 ELSE 0)
                + (IF PingOverTypical THEN 1 ELSE 0)
                + (IF BothBelowOneMbps THEN 1 ELSE 0)
        /\ (/\ v_cfg = DEFAULT_CONFIG
            /\ InDownload = 5000
            /\ InUpload = 1000
            /\ InPing = 20) => v_out.warnings = <<>>

\* C10 witness: 2 Gbps with a ping over the typical ceiling passed the hard
\* checks and was given both warnings, the first naming "2.0 Gbps"
C10_Witness ==
    /\ Validated
    /\ v_cfg = DEFAULT_CONFIG
    /\ v_results.download = Num(20000)
    /\ v_results.ping = Num(1001)
    /\ v_out.valid
    /\ Len(v_out.warnings) = 2
    /\ v_out.warnings[1][4] = "(2.0"

(***************************************************************************)
(* Properties of what run_speed_test returns: the result's flags, provider *)
(* exceptions, the release of the client, progress callbacks that raise.   *)
(***************************************************************************)
\* the last cancellation check of this run_speed_test met the signal set
CancelSeen == checks # <<>> /\ checks[Len(checks)]

\* the raw measurements of this run: numbers, none negative, none above the
\* reasonable ceilings of the configuration
RawWithinCeilings ==
    LET d == GetOrZero(raw.download)
        u == GetOrZero(raw.upload)
        p == GetOrZero(raw.ping)
    IN  /\ raw.reached
        /\ IsNumber(d) /\ IsNumber(u) /\ IsNumber(p)
        /\ d.val >= 0 /\ u.val >= 0 /\ p.val >= 0
        /\ d.val <= cfg.max_reasonable_speed_gbps * 1000
        /\ u.val <= cfg.max_reasonable_speed_gbps * 1000
        /\ p.val <= cfg.max_reasonable_ping_ms

\* C11: every result run_speed_test or run_speed_test_with_retry returns
\* has is_cancelled => ~is_valid, and is_valid only when the raw download,
\* upload and ping were all non-negative and not above the reasonable
\* ceilings, so that a valid result carries no negative speed or latency.
C11_ResultFlags ==
    /\ AttemptOver =>
          /\ result.is_cancelled => ~result.is_valid
          /\ result.is_valid =>
                /\ RawWithinCeilings
                /\ result.download_mbps.num >= 0
                /\ result.upload_mbps.num >= 0
                /\ result.ping_ms.val >= 0
    /\ pc = "returned" =>
          /\ ret.is_cancelled => ~ret.is_valid
          /\ ret.is_valid => (ret = result /\ RawWithinCeilings)

\* C11 witness: a valid result was returned for a slow line with a ping of
\* 2000 ms, inside the ceilings
C11_Witness ==
    /\ pc = "returned"
    /\ ret.is_valid
    /\ ~ret.is_cancelled
    /\ raw.ping = Num(2000)
    /\ ret.warnings # <<>>

\* the warning names the reason of exception e
DescribesReason(w, e) ==
    CASE e.type = "ConfigRetrievalError" -> HasWords(w, {"configuration"})
      [] e.type = "NoMatchedServers" -> HasWords(w, {"servers"})
      [] OTHER -> ContainsPhrase(w, e.msg)

\* C12: an exception raised by the provider at any stage, result extraction
\* included, does not leave run_speed_test: the run returns a result with
\* is_valid=false, is_cancelled=false and exactly one warning, which
\* describes the reason.
C12_ProviderExceptionCaught ==
    (raised # NoExc) =>
        /\ AttemptOver
        /\ ~result.is_valid
        /\ ~result.is_cancelled
        /\ Len(result.warnings) = 1
        /\ DescribesReason(result.warnings[1], raised)

\* C12 witness: the provider's download raised a timeout and the run
\* returned one warning
C12_Witness ==
    /\ raised = ExcTimeout
    /\ stage = 4
    /\ AttemptOver
    /\ Len(result.warnings) = 1

\* what run_speed_test returns on the path this run took
ExpectedResult ==
    IF CancelSeen THEN CancelledResult
    ELSE IF raised # NoExc THEN FailureResult(ExceptionWarning(raised))
    ELSE IF raw.reached
         THEN LET v == ValidateResults(cfg, raw)
              IN  SpeedTestResult(
                      Mbps(GetOrZero(raw.download).val, cfg.bits_to_mbps),
                      Mbps(GetOrZero(raw.upload).val, cfg.bits_to_mbps),
                      GetOrZero(raw.ping), "Sponsor (Name)",
                      v.valid, v.warnings, FALSE)
    ELSE NoResult

\* C13: on every exit path of run_speed_test on which the client was
\* created (success, provider failure, cancellation at a checkpoint) the
\* client has been released when the run returns, no client stays open
\* outside a run, and an error raised by the release leaves the returned
\* result what the path gives.
C13_ClientReleased ==
    /\ (AttemptOver /\ stage >= 2) => client = "released"
    /\ pc \notin {"notify", "check", "call"} => client # "open"
    /\ release_error =>
          /\ AttemptOver
          /\ client = "released"
          /\ result = ExpectedResult

\* C13 witness: cancelled at the checkpoint before the upload, the release
\* of the client raised, and the run returned Cancelled
C13_Witness ==
    /\ AttemptOver
    /\ stage = 5
    /\ release_error
    /\ result.is_cancelled
    /\ client = "released"

\* C14: an exception raised by the progress callback at a notification does
\* not leave the engine: the run goes through the same stages and returns
\* the result its path gives with a callback that does not fail.
C14_CallbackErrorCaught ==
    cb_failed =>
        /\ pc # "raised"
        /\ AttemptOver =>
              /\ result = ExpectedResult
              /\ (~CancelSeen /\ raised = NoExc) => calls = ProviderOrder

\* C14 witness: a callback raised during a run that made all six provider
\* calls and returned a valid result
C14_Witness ==
    /\ cb_failed
    /\ pc = "returned"
    /\ calls = ProviderOrder
    /\ ret.is_valid

(***************************************************************************)
(* ScheduledTestRunner: start_scheduler and stop_scheduler on the          *)
(* controlling thread, _scheduler_loop on each worker thread, the          *)
(* monotonic clock and a wall clock that may jump.                         *)
(***************************************************************************)
\* the last reading of the monotonic clock the model goes to, in seconds
MaxTime == 150

\* the _run_scheduled_test calls the model goes to
MaxTests == 2

\* the values datetime.now() is let to return (they go to start_time and
\* _next_test_time, which nothing but get_status reads)
WallReadings == {0}

\* the intervals a runner is let to be built with, in minutes
Intervals == {2}

TestPaths ==
    { Path("down", FALSE, InvalidResult, FALSE, "none"),
      Path("raise", FALSE, InvalidResult, FALSE, "none"),
      Path("ok", TRUE, InvalidResult, FALSE, "none"),
      Path("ok", FALSE, InvalidResult, FALSE, "none"),
      Path("ok", FALSE, CancelledTest, FALSE, "none"),
      Path("ok", FALSE, ValidResult, TRUE, "none"),
      Path("ok", FALSE, ValidResult, FALSE, "none"),
      Path("ok", FALSE, ValidResult, FALSE, "ok"),
      Path("ok", FALSE, ValidResult, FALSE, "raise") }

InitSched ==
    /\ cfg = DEFAULT_CONFIG
    /\ EngineIdle
    /\ ValidateIdle
    /\ interval_minutes \in Intervals
    /\ mono = 30
    /\ SchedulerConstructed
    /\ ServiceIdle

\* start_scheduler without its first two lines
StartGuardNever(is_running) == FALSE

\* if self._running: return
StartGuard(is_running) == is_running

\* if not self._running: return
StopGuard(is_running) == ~is_running

IsAlive(w) == w # 0 /\ wpc[w] \notin {"unborn", "dead"}

\* the next worker thread threading.Thread(...) creates
NewWorker == CHOOSE w \in WorkerIds :
    wpc[w] = "unborn" /\ \A v \in WorkerIds : v < w => wpc[v] # "unborn"

\* start_scheduler()
StartScheduler ==
    /\ main_pc = "ready"
    /\ IF StartGuard(running)
       THEN /\ last_op' = "start_noop"
            /\ UNCHANGED <<scheduler_fields, worker_vars>>
       ELSE /\ \E w \in WorkerIds : wpc[w] = "unborn"
            /\ last_op' = "start"
            /\ running' = TRUE
            /\ stop_event' = FALSE
            /\ \E now \in WallReadings :
                  /\ start_time' = Some(now)
                  /\ next_test_time' = Some(now)
            /\ start_monotonic' = Some(mono)
            /\ next_test_monotonic' = Some(mono)
            /\ thread' = NewWorker
            /\ wpc' = [wpc EXCEPT ![NewWorker] = "loop_check"]
            /\ UNCHANGED <<current_monotonic, wake_at>>
    /\ UNCHANGED <<interval_minutes, statistics, mono, main_pc, store_log, executions>>
    /\ test_log' = NoTest
    /\ UNCHANGED <<engine_vars, validate_vars, service_vars>>

\* stop_scheduler(), up to the join
StopScheduler ==
    /\ main_pc = "ready"
    /\ IF StopGuard(running)
       THEN /\ last_op' = "stop_noop"
            /\ UNCHANGED <<running, stop_event, main_pc>>
       ELSE /\ last_op' = "stop"
            /\ running' = FALSE
            /\ stop_event' = TRUE
            /\ main_pc' = IF IsAlive(thread) THEN "joining" ELSE "ready"
    /\ UNCHANGED <<interval_minutes, thread, next_test_time,
                   next_test_monotonic, start_time, start_monotonic,
                   statistics, mono, worker_vars, store_log,
                   executions>>
    /\ test_log' = NoTest
    /\ UNCHANGED <<engine_vars, validate_vars, service_vars>>

\* self._thread.join(timeout=5.0) returns: the worker has exited, or five
\* seconds went by with the worker inside a test
JoinReturn ==
    /\ main_pc = "joining"
    /\ wpc[thread] \in {"dead", "testing"}
    /\ main_pc' = "ready"
    /\ UNCHANGED <<interval_minutes, scheduler_fields, statistics, mono,
                   worker_vars, store_log, executions, last_op>>
    /\ test_log' = NoTest
    /\ UNCHANGED <<engine_vars, validate_vars, service_vars>>

\* a minute goes by on the monotonic clock
Tick ==
    /\ mono + 60 <= MaxTime
    /\ mono' = mono + 60
    /\ UNCHANGED <<interval_minutes, scheduler_fields, statistics, main_pc,
                   worker_vars, store_log, executions, last_op>>
    /\ test_log' = NoTest
    /\ UNCHANGED <<engine_vars, validate_vars, service_vars>>

\* while self._running and not self._stop_event.is_set()
LoopCheck(w) ==
    /\ wpc[w] = "loop_check"
    /\ wpc' = [wpc EXCEPT ![w] = IF running /\ ~stop_event
                                 THEN "decide" ELSE "dead"]
    /\ UNCHANGED <<interval_minutes, scheduler_fields, statistics, mono,
                   main_pc, current_monotonic, wake_at, store_log,
                   executions, last_op>>
    /\ test_log' = NoTest
    /\ UNCHANGED <<engine_vars, validate_vars, service_vars>>

\* max(1, min(60, time_until_next))
SleepSeconds(time_until_next) == Max(1, Min(60, time_until_next))

\* the clocks are read and the deadline is compared: a test begins, or the
\* sleep is computed and self._stop_event.wait(timeout=sleep_seconds) begins
\* (current_monotonic is not read again; what datetime.now() returned is any
\* of its readings, drawn where line 104 uses it)
Decide(w) ==
    /\ wpc[w] = "decide"
    /\ IF mono >= next_test_monotonic.val
       THEN /\ executions < MaxTests
            /\ executions' = executions + 1
            /\ current_monotonic' = [current_monotonic EXCEPT ![w] = mono]
            /\ wpc' = [wpc EXCEPT ![w] = "testing"]
            /\ UNCHANGED wake_at
       ELSE /\ wpc' = [wpc EXCEPT ![w] = "wait"]
            /\ wake_at' =
                  [wake_at EXCEPT
                      ![w] = mono + SleepSeconds(next_test_monotonic.val - mono)]
            /\ UNCHANGED <<executions, current_monotonic>>
    /\ UNCHANGED <<interval_minutes, scheduler_fields, statistics, mono,
                   main_pc, store_log, last_op>>
    /\ test_log' = NoTest
    /\ UNCHANGED <<engine_vars, validate_vars, service_vars>>

\* a test that hands every result to the store
ShouldSaveAlways(r) == TRUE

\* if result.is_valid:
ShouldSave(r) == r.is_valid

\* an except clause that lets the result callback's exception through
ExceptionCaughtNotCallback(source) == source # "callback"

\* except Exception as e: around the body of _run_scheduled_test
ExceptionCaught(source) == TRUE

\* _run_scheduled_test on path p: the save_result calls it makes, what it
\* adds to the two counters, the exception it met and whether it escaped
RunScheduledTest(p) ==
    LET tested == p.connectivity = "ok" /\ ~p.test_raises
        saving == tested /\ ShouldSave(p.result)
        counted == saving /\ ~p.save_raises
        exc == IF p.connectivity = "raise" THEN "connectivity"
               ELSE IF p.connectivity = "ok" /\ p.test_raises THEN "test"
               ELSE IF saving /\ p.save_raises THEN "save"
               ELSE IF counted /\ p.callback = "raise" THEN "callback"
               ELSE "none"
        declined == p.connectivity = "down" \/ (tested /\ ~saving)
    IN  [ saves     |-> IF saving THEN 1 ELSE 0,
          completed |-> IF counted THEN 1 ELSE 0,
          failed    |-> (IF declined THEN 1 ELSE 0)
                        + (IF exc # "none" /\ ExceptionCaught(exc)
                           THEN 1 ELSE 0),
          exception |-> exc,
          escaped   |-> exc # "none" /\ ~ExceptionCaught(exc) ]

\* the deadline line 102 sets after a test
NextDeadline(w) == current_monotonic[w] + interval_minutes * 60

\* self._run_scheduled_test() runs to its end; then the next deadline and its
\* display time are set, the sleep is computed and
\* self._stop_event.wait(timeout=sleep_seconds) begins
FinishTest(w) ==
    /\ wpc[w] = "testing"
    /\ \E p \in TestPaths :
          LET e == RunScheduledTest(p)
          IN  /\ tests_completed' = tests_completed + e.completed
              /\ tests_failed' = tests_failed + e.failed
              /\ store_log' = IF e.saves = 1
                              THEN Append(store_log, p.result)
                              ELSE store_log
              /\ test_log' =
                    [worker |-> w, path |-> p, saves |-> e.saves,
                     completed |-> e.completed, failed |-> e.failed,
                     exception |-> e.exception]
              /\ IF e.escaped
                 THEN /\ wpc' = [wpc EXCEPT ![w] = "dead"]
                      /\ UNCHANGED <<next_test_monotonic, next_test_time,
                                     wake_at>>
                 ELSE /\ wpc' = [wpc EXCEPT ![w] = "wait"]
                      /\ next_test_monotonic' = Some(NextDeadline(w))
                      /\ \E current_time \in WallReadings :
                            next_test_time' =
                               Some(current_time + interval_minutes * 60)
                      /\ wake_at' =
                            [wake_at EXCEPT ![w] = mono + SleepSeconds(
                                NextDeadline(w) - current_monotonic[w])]
    /\ current_monotonic' = [current_monotonic EXCEPT ![w] = 0]
    /\ UNCHANGED <<interval_minutes, running, stop_event, thread, start_time,
                   start_monotonic, mono, main_pc, executions, last_op>>
    /\ UNCHANGED <<engine_vars, validate_vars, service_vars>>

\* self._stop_event.wait returns: the event is set, or the timeout is over
Wake(w) ==
    /\ wpc[w] = "wait"
    /\ stop_event \/ mono >= wake_at[w]
    /\ wpc' = [wpc EXCEPT ![w] = "loop_check"]
    /\ wake_at' = [wake_at EXCEPT ![w] = 0]
    /\ UNCHANGED <<interval_minutes, scheduler_fields, statistics, mono,
                   main_pc, current_monotonic, store_log, executions, last_op>>
    /\ test_log' = NoTest
    /\ UNCHANGED <<engine_vars, validate_vars, service_vars>>

\* get_status()
GetStatus ==
    [ running          |-> running,
      interval_minutes |-> interval_minutes,
      tests_completed  |-> tests_completed,
      tests_failed     |-> tests_failed,
      runtime_seconds  |-> IF start_monotonic.kind = "some"
                                 /\ start_monotonic.val # 0
                              THEN Some(mono - start_monotonic.val)
                              ELSE Nothing,
      next_test_time   |-> next_test_time,
      start_time       |-> start_time ]

NextSched ==
    \/ StartScheduler
    \/ StopScheduler
    \/ JoinReturn
    \/ Tick
    \/ \E w \in WorkerIds : LoopCheck(w)
    \/ \E w \in WorkerIds : Decide(w)
    \/ \E w \in WorkerIds : FinishTest(w)
    \/ \E w \in WorkerIds : Wake(w)

SpecSched == InitSched /\ [][NextSched]_vars

SchedTypeOK ==
    /\ running \in BOOLEAN
    /\ stop_event \in BOOLEAN
    /\ thread \in 0..MaxWorkers
    /\ main_pc \in {"ready", "joining"}
    /\ \A w \in WorkerIds :
          wpc[w] \in {"unborn", "loop_check", "decide", "testing", "wait",
                      "dead"}
    /\ executions \in 0..MaxTests
    /\ tests_completed + tests_failed <= 2 * MaxTests

(***************************************************************************)
(* Properties of the scheduler.                                            *)
(***************************************************************************)
\* the workers start_scheduler has started so far
StartedWorkers == {w \in WorkerIds : wpc[w] # "unborn"}

\* stop_scheduler was called after worker w was started
Stopped(w) == wpc[w] # "unborn" /\ (thread # w \/ ~running)

\* C15: the runner moves only Stopped -> Running, by start_scheduler, and
\* Running -> Stopped, by stop_scheduler; start_scheduler while Running and
\* stop_scheduler while Stopped change no state and start no worker; a
\* start_scheduler from Stopped starts exactly one worker; and
\* get_status().running, which changes at these calls only, is true exactly
\* between a start and the following stop.
C15_StartStopTransitions ==
    [][ /\ GetStatus.running = running
        /\ (last_op' = last_op) =>
              /\ running' = running
              /\ {w \in WorkerIds : wpc'[w] # "unborn"} = StartedWorkers
        /\ (last_op' # last_op /\ last_op' \in {"start", "start_noop"}) =>
              /\ running'
              /\ running =>
                    UNCHANGED <<scheduler_fields, statistics, worker_vars>>
              /\ ~running =>
                    Cardinality({w \in WorkerIds : wpc'[w] # "unborn"}
                                   \ StartedWorkers) = 1
        /\ (last_op' # last_op /\ last_op' \in {"stop", "stop_noop"}) =>
              /\ ~running'
              /\ ~running =>
                    UNCHANGED <<scheduler_fields, statistics, worker_vars>>
              /\ {w \in WorkerIds : wpc'[w] # "unborn"} = StartedWorkers
      ]_vars

\* C15 witness: start_scheduler was called on a runner that was Running and
\* had begun a test; it is Running still, with its one worker
C15_Witness ==
    /\ last_op = "start_noop"
    /\ running
    /\ GetStatus.running
    /\ StartedWorkers = {1}
    /\ executions >= 1

\* C16: after stop_scheduler is called the loop starts no new test and the
\* worker exits at its next stop-signal check: a worker that was alive at a
\* stop_scheduler call leaves the head of its loop only by ending.
C16_WorkerExitsAfterStop ==
    [][ \A w \in WorkerIds :
           (Stopped(w) /\ wpc[w] = "loop_check" /\ wpc'[w] # "loop_check")
              => wpc'[w] = "dead"
      ]_vars

\* C17: an exception from the connectivity check, the test, the store save
\* or the result callback does not end the loop: whatever way a test goes,
\* the worker that ran it goes on to wait with the next deadline recomputed
\* and the runner's state unchanged, and a worker ends only at the head of
\* its loop, when the runner was stopped.
C17_LoopSurvivesFailure ==
    [][ \A w \in WorkerIds :
           /\ (wpc[w] = "testing" /\ wpc'[w] # "testing") =>
                 /\ wpc'[w] = "wait"
                 /\ running' = running
                 /\ next_test_monotonic' = Some(NextDeadline(w))
                 /\ wake_at'[w] > mono
           /\ (wpc[w] # "dead" /\ wpc'[w] = "dead") =>
                 /\ wpc[w] = "loop_check"
                 /\ ~running \/ stop_event
      ]_vars

\* C17 witness: the store's save raised in the first test (one hand-over,
\* nothing completed, one failure) and the same worker is running a second
\* test at a later deadline, the runner still Running
C17_Witness ==
    /\ running
    /\ StartedWorkers = {1}
    /\ wpc[1] = "testing"
    /\ executions = 2
    /\ Len(store_log) = 1
    /\ tests_completed = 0
    /\ tests_failed = 1
    /\ mono > 30

\* C18: a scheduled test hands its result to the store exactly once when
\* the connectivity check passed and the test returned a valid result, and
\* never otherwise (no connectivity, an invalid or cancelled result, an
\* exception); so every record the scheduler hands over is valid.
C18_StoreHandOver ==
    /\ \A i \in 1..Len(store_log) :
          store_log[i].is_valid /\ ~store_log[i].is_cancelled
    /\ Len(store_log) <= executions
    /\ test_log.worker # 0 =>
          test_log.saves = IF /\ test_log.path.connectivity = "ok"
                              /\ ~test_log.path.test_raises
                              /\ test_log.path.result.is_valid
                           THEN 1 ELSE 0

\* C18 witness: a test that returned Cancelled handed nothing over, after
\* an earlier test whose valid result was handed over
C18_Witness ==
    /\ test_log.worker # 0
    /\ test_log.path.connectivity = "ok"
    /\ test_log.path.result = CancelledTest
    /\ test_log.saves = 0
    /\ store_log = <<ValidResult>>
    /\ executions = 2

\* C19: a test begins only when the monotonic clock is at or past the
\* deadline, and when the test has been executed the next deadline is the
\* monotonic time at that moment plus the interval.
C19_DeadlineFromNow ==
    [][ \A w \in WorkerIds :
           /\ (wpc[w] = "decide" /\ wpc'[w] = "testing") =>
                 mono >= next_test_monotonic.val
           /\ (wpc[w] = "testing" /\ wpc'[w] = "wait") =>
                 next_test_monotonic' = Some(mono + interval_minutes * 60)
      ]_vars

\* C20: the scheduler's state is reset on stop: once stop_scheduler has
\* returned, get_status reports no counters, elapsed time, start time or
\* next-fire time of the run that was stopped.
C20_ResetOnStop ==
    (last_op = "stop" /\ main_pc = "ready") =>
        /\ GetStatus.tests_completed = 0
        /\ GetStatus.tests_failed = 0
        /\ GetStatus.runtime_seconds = Nothing
        /\ GetStatus.start_time = Nothing
        /\ GetStatus.next_test_time = Nothing

(***************************************************************************)
(* AsyncSpeedTestRunner (speedtest_core.py, lines 508-576): a main thread  *)
(* that calls start_test, get_result, get_progress and cancel_test in any  *)
(* order, and the background thread of _run_test_thread.                   *)
(***************************************************************************)
MaxProgress == 2

\* queue.Queue(maxsize=1)
ResultQueueMaxsize == 1

\* what run_speed_test_with_retry hands back, with the test it belongs to
AsyncResult(test, outcome) == [test |-> test, outcome |-> outcome]

AsyncOutcomes(cancelled) ==
    IF cancelled THEN {"valid", "failed", "cancelled"}
    ELSE {"valid", "failed"}

InitAsync ==
    /\ cfg = DEFAULT_CONFIG
    /\ EngineIdle
    /\ ValidateIdle
    /\ SchedIdle
    /\ ServiceIdle

\* self._thread and self._thread.is_alive()
RunnerAlive == runner_thread # 0 /\ a_pc[runner_thread] # "dead"

\* start_test with a thread alive: no thread is started
StartTestAlways(alive) == FALSE

\* if self._thread and self._thread.is_alive(): return
StartTestReturns(alive) == alive

\* start_test: nothing while a thread is alive, else a new thread
StartTest ==
    /\ IF StartTestReturns(RunnerAlive)
       THEN /\ a_op' = "start_noop"
            /\ UNCHANGED <<runner_thread, a_pc, a_local>>
       ELSE /\ runner_thread < MaxAsyncTests
            /\ runner_thread' = runner_thread + 1
            /\ a_pc' = Append(a_pc, "started")
            /\ a_local' = Append(a_local, Nothing)
            /\ a_op' = "start"
    /\ UNCHANGED <<result_queue, progress_queue, cancel_requested, got>>
    /\ UNCHANGED <<engine_vars, validate_vars, sched_vars, config_vars, store_vars,
                   cli_vars>>

\* thread w enters run_speed_test_with_retry: with the event set the loop
\* returns the Cancelled result at its first check, else run_speed_test
\* begins and clears the event
RunnerBegin(w) ==
    /\ a_pc[w] = "started"
    /\ IF cancel_requested
       THEN /\ a_local' =
                 [a_local EXCEPT ![w] = Some(AsyncResult(w, "cancelled"))]
            /\ a_pc' = [a_pc EXCEPT ![w] = "putting"]
       ELSE /\ a_pc' = [a_pc EXCEPT ![w] = "running"]
            /\ UNCHANGED a_local
    /\ UNCHANGED <<runner_thread, a_op, result_queue, progress_queue,
                   cancel_requested, got>>
    /\ UNCHANGED <<engine_vars, validate_vars, sched_vars, config_vars, store_vars,
                   cli_vars>>

\* _progress_callback: SimpleQueue.put never waits
ProgressCallback(w) ==
    /\ a_pc[w] = "running"
    /\ progress_queue < MaxProgress
    /\ progress_queue' = progress_queue + 1
    /\ UNCHANGED <<runner_thread, a_pc, a_local, a_op, result_queue,
                   cancel_requested, got>>
    /\ UNCHANGED <<engine_vars, validate_vars, sched_vars, config_vars, store_vars,
                   cli_vars>>

\* a cancel_test() that arrives after the check at the head of the retry
\* loop and before run_speed_test clears the event is lost
RunnerClear(w) ==
    /\ a_pc[w] = "running"
    /\ cancel_requested
    /\ cancel_requested' = FALSE
    /\ UNCHANGED <<runner_thread, a_pc, a_local, a_op, result_queue,
                   progress_queue, got>>
    /\ UNCHANGED <<engine_vars, validate_vars, sched_vars, config_vars, store_vars,
                   cli_vars>>

\* result = self.engine.run_speed_test_with_retry()
RunnerFinish(w) ==
    /\ a_pc[w] = "running"
    /\ \E o \in AsyncOutcomes(cancel_requested) :
          a_local' = [a_local EXCEPT ![w] = Some(AsyncResult(w, o))]
    /\ a_pc' = [a_pc EXCEPT ![w] = "putting"]
    /\ UNCHANGED <<runner_thread, a_op, result_queue, progress_queue,
                   cancel_requested, got>>
    /\ UNCHANGED <<engine_vars, validate_vars, sched_vars, config_vars, store_vars,
                   cli_vars>>

\* Queue.put with block=True: waits while the queue holds maxsize items
PutWaits(q) == Len(q) >= ResultQueueMaxsize

\* self._result_queue.put(result), after which the thread ends
RunnerPut(w) ==
    /\ a_pc[w] = "putting"
    /\ ~PutWaits(result_queue)
    /\ result_queue' = Append(result_queue, a_local[w].val)
    /\ a_pc' = [a_pc EXCEPT ![w] = "dead"]
    /\ UNCHANGED <<runner_thread, a_local, a_op, progress_queue,
                   cancel_requested, got>>
    /\ UNCHANGED <<engine_vars, validate_vars, sched_vars, config_vars, store_vars,
                   cli_vars>>

\* get_result: get_nowait, None when the queue is empty
GetResult ==
    /\ IF result_queue = <<>>
       THEN got' = Nothing /\ UNCHANGED result_queue
       ELSE got' = Some(Head(result_queue))
            /\ result_queue' = Tail(result_queue)
    /\ UNCHANGED <<runner_thread, a_pc, a_local, a_op, progress_queue,
                   cancel_requested>>
    /\ UNCHANGED <<engine_vars, validate_vars, sched_vars, config_vars, store_vars,
                   cli_vars>>

\* get_progress: get(block=False)
GetProgress ==
    /\ progress_queue > 0
    /\ progress_queue' = progress_queue - 1
    /\ UNCHANGED <<runner_thread, a_pc, a_local, a_op, result_queue,
                   cancel_requested, got>>
    /\ UNCHANGED <<engine_vars, validate_vars, sched_vars, config_vars, store_vars,
                   cli_vars>>

\* cancel_test: sets the engine's event; the join that follows lasts ten
\* seconds at most and changes nothing
RunnerCancelTest ==
    /\ ~cancel_requested
    /\ cancel_requested' = TRUE
    /\ UNCHANGED <<runner_thread, a_pc, a_local, a_op, result_queue,
                   progress_queue, got>>
    /\ UNCHANGED <<engine_vars, validate_vars, sched_vars, config_vars, store_vars,
                   cli_vars>>

NextAsync ==
    \/ StartTest
    \/ \E w \in DOMAIN a_pc : RunnerBegin(w)
    \/ \E w \in DOMAIN a_pc : ProgressCallback(w)
    \/ \E w \in DOMAIN a_pc : RunnerClear(w)
    \/ \E w \in DOMAIN a_pc : RunnerFinish(w)
    \/ \E w \in DOMAIN a_pc : RunnerPut(w)
    \/ GetResult
    \/ GetProgress
    \/ RunnerCancelTest

SpecAsync == InitAsync /\ [][NextAsync]_vars

\* the run of the thread of the most recent start_test has returned
LatestTestFinished ==
    runner_thread # 0 /\ a_pc[runner_thread] \in {"putting", "dead"}

\* C21: the result slot holds the latest result: the worker that has its
\* result is never kept waiting by the slot, and once the test of the most
\* recent start_test has finished, what get_result would take from the
\* slot is that test's result, never an earlier test's.
C21_LatestResultSlot ==
    /\ \A w \in DOMAIN a_pc : a_pc[w] = "putting" => ~PutWaits(result_queue)
    /\ (LatestTestFinished /\ result_queue # <<>>) =>
          Head(result_queue).test = runner_thread

(***************************************************************************)
(* SpeedTestConfig (speedtest_core.py, lines 82-235): validation of the    *)
(* values of a configuration file, load_config and create_sample_config.   *)
(***************************************************************************)
MaxSampleCalls == 2

\* VALIDATION_RULES, in the units of DEFAULT_CONFIG
VALIDATION_RULES ==
    [ bits_to_mbps               |-> <<1, 100>>,
      connectivity_check_timeout |-> <<5, 60>>,
      speedtest_timeout          |-> <<10, 300>>,
      max_retries                |-> <<1, 10>>,
      retry_delay                |-> <<1, 30>>,
      max_typical_speed_gbps     |-> <<1, 1000>>,
      max_reasonable_speed_gbps  |-> <<10, 10000>>,
      max_typical_ping_ms        |-> <<50, 5000>>,
      max_reasonable_ping_ms     |-> <<100, 30000>> ]

\* the number 1 in the units of a key (a bit is below one unit of
\* bits_to_mbps)
One(key) ==
    IF key \in {"max_typical_speed_gbps", "max_reasonable_speed_gbps"}
    THEN 10
    ELSE IF key = "bits_to_mbps" THEN 0
    ELSE 1

\* isinstance(value, (int, float)): bool is a subclass of int
IsIntOrFloat(value) == value.kind \in {"num", "bool"}

\* the number a value compares as: True is 1 and False is 0
NumberOf(key, value) ==
    IF value.kind = "bool" THEN value.val * One(key) ELSE value.val

\* _validate_config_value: whether it raises ValueError
RaisesValueError(key, value) ==
    IF key \in BoolKeys THEN value.kind # "bool"
    ELSE IF key \in DOMAIN VALIDATION_RULES
    THEN \/ ~IsIntOrFloat(value)
         \/ ~(/\ VALIDATION_RULES[key][1] <= NumberOf(key, value)
              /\ NumberOf(key, value) <= VALIDATION_RULES[key][2])
    ELSE FALSE

\* lines 161-172: unknown keys are skipped, a valid value is taken, an
\* invalid one gives the default
ValidatedValues(file_config) ==
    [k \in ConfigKeys |->
        IF k \notin DOMAIN file_config THEN Absent
        ELSE IF RaisesValueError(k, file_config[k]) THEN DefaultValue(k)
        ELSE file_config[k]]

CeilingKeys ==
    {"max_typical_speed_gbps", "max_reasonable_speed_gbps",
     "max_typical_ping_ms", "max_reasonable_ping_ms"}

\* lines 175-185: a ceiling that is zero or negative gives the default
PositiveCeilings(validated_config) ==
    [k \in ConfigKeys |->
        IF /\ k \in CeilingKeys
           /\ validated_config[k] # Absent
           /\ NumberOf(k, validated_config[k]) <= 0
        THEN DefaultValue(k)
        ELSE validated_config[k]]

\* lines 188-196 without the repair
RepairTypicalNever(validated_config, typical, reasonable) == validated_config

\* lines 188-191 and 193-196: when both keys are there and typical is not
\* below reasonable, typical gives its default
RepairTypical(validated_config, typical, reasonable) ==
    IF /\ validated_config[typical] # Absent
       /\ validated_config[reasonable] # Absent
       /\ NumberOf(typical, validated_config[typical])
             >= NumberOf(reasonable, validated_config[reasonable])
    THEN [validated_config EXCEPT ![typical] = DefaultValue(typical)]
    ELSE validated_config

\* _validate_and_update_config
ValidateAndUpdateConfig(file_config) ==
    RepairTypical(
        RepairTypical(PositiveCeilings(ValidatedValues(file_config)),
                      "max_typical_speed_gbps", "max_reasonable_speed_gbps"),
        "max_typical_ping_ms", "max_reasonable_ping_ms")

\* dict.update
Update(old, new) ==
    [k \in ConfigKeys |-> IF new[k] = Absent THEN old[k] ELSE new[k]]

\* what lines 209-218 raise for a file that exists: open or read fails
\* with OSError, json.load raises JSONDecodeError on text that is not JSON
\* and UnicodeDecodeError on bytes that are not text, and .items() raises
\* AttributeError on a JSON value that is not an object
LoadRaises(file) ==
    CASE file.kind = "unreadable" -> "OSError"
      [] file.kind = "malformed"  -> "JSONDecodeError"
      [] file.kind = "not_text"   -> "UnicodeDecodeError"
      [] file.kind = "not_object" -> "AttributeError"
      [] OTHER                    -> "none"

\* except (json.JSONDecodeError, IOError, OSError)
LoadCatches(exception) ==
    exception \in {"JSONDecodeError", "IOError", "OSError"}

\* self.config_file.exists()
Exists(file) == file.kind # "missing"

\* __init__ and load_config: the config they leave and what they raise
LoadConfig(file) ==
    IF ~Exists(file)
    THEN [config |-> DefaultsCopy, raised |-> "none"]
    ELSE IF LoadRaises(file) # "none"
    THEN [config |-> DefaultsCopy,
          raised |-> IF LoadCatches(LoadRaises(file)) THEN "none"
                     ELSE LoadRaises(file)]
    ELSE [config |-> Update(DefaultsCopy,
                            ValidateAndUpdateConfig(file.fields)),
          raised |-> "none"]

\* json.dump(self.DEFAULT_CONFIG, f), as json.load reads it back
DefaultsFile ==
    FileObject([k \in ConfigKeys |-> DefaultValue(k)])

\* the objects a configuration file may hold
ConfigObjects ==
    { Dict([[k \in FileKeys |-> Absent] EXCEPT
          !["max_retries"] = r,
          !["retry_delay"] = d,
          !["max_typical_speed_gbps"] = ts,
          !["max_reasonable_speed_gbps"] = rs,
          !["max_typical_ping_ms"] = tp,
          !["max_reasonable_ping_ms"] = rp,
          !["show_detailed_progress"] = f,
          ![UnknownKey] = u]) :
        r \in {Absent, JNum(5), JNum(15), JOther, JBool(TRUE)},
        d \in {Absent, JNum(3)},
        ts \in {Absent, JNum(5), JNum(20), JNum(500), JNum(2000)},
        rs \in {Absent, JNum(5), JNum(10), JNum(50), JNum(20000)},
        tp \in {Absent, JNum(500), JNum(2000), JNum(10)},
        rp \in {Absent, JNum(1000), JNum(5000), JNum(50), JNum(500)},
        f \in {Absent, JBool(FALSE), JOther},
        u \in {Absent, JNum(1)} }

ConfigFiles ==
    {FileOf(k) : k \in {"missing", "unreadable", "malformed", "not_text",
                        "not_object"}}
        \cup {FileObject(o) : o \in ConfigObjects}

InitConfig ==
    /\ cfg = DEFAULT_CONFIG
    /\ EngineIdle
    /\ ValidateIdle
    /\ SchedIdle
    /\ AsyncIdle
    /\ StoreIdle
    /\ CliIdle
    /\ config_file \in ConfigFiles
    /\ config = NoFields
    /\ constructed = FALSE
    /\ load_raised = "none"
    /\ loaded_from = NeverLoaded
    /\ sample_ret = "none"
    /\ sample_calls = 0

\* SpeedTestConfig(config_file)
Construct ==
    /\ loaded_from' = config_file
    /\ config' = LoadConfig(config_file).config
    /\ load_raised' = LoadConfig(config_file).raised
    /\ constructed' = (LoadConfig(config_file).raised = "none")
    /\ UNCHANGED <<config_file, sample_ret, sample_calls>>
    /\ UNCHANGED <<engine_vars, validate_vars, sched_vars, async_vars, store_vars,
                   cli_vars>>

\* create_sample_config without the test of line 228
SampleGuardAlways(exists) == TRUE

\* if not self.config_file.exists()
SampleGuard(exists) == ~exists

\* create_sample_config: a write that fails with IOError leaves no file
\* or a part of one
CreateSampleConfig ==
    /\ constructed
    /\ sample_calls < MaxSampleCalls
    /\ sample_calls' = sample_calls + 1
    /\ IF SampleGuard(Exists(config_file))
       THEN \/ /\ config_file' = DefaultsFile
               /\ sample_ret' = "true"
            \/ /\ config_file' \in {FileMissing, FileOf("malformed")}
               /\ sample_ret' = "false"
       ELSE /\ sample_ret' = "false"
            /\ UNCHANGED config_file
    /\ UNCHANGED <<config, constructed, load_raised, loaded_from>>
    /\ UNCHANGED <<engine_vars, validate_vars, sched_vars, async_vars, store_vars,
                   cli_vars>>

NextConfig ==
    \/ Construct
    \/ CreateSampleConfig

SpecConfig == InitConfig /\ [][NextConfig]_vars

(***************************************************************************)
(* Properties of SpeedTestConfig.                                          *)
(***************************************************************************)
\* a constructor call has gone through load_config and returned
Loaded == loaded_from # NeverLoaded /\ load_raised = "none"

\* a number outside the range of its key
OutOfRange(key, value) ==
    /\ value.kind = "num"
    /\ key \in DOMAIN VALIDATION_RULES
    /\ RaisesValueError(key, value)

\* a value that _validate_config_value accepts
ValidField(key, value) == value # Absent /\ ~RaisesValueError(key, value)

\* the valid ceilings of a file do not contradict each other
CeilingsAgree(fields, typical, reasonable) ==
    (ValidField(typical, fields[typical])
        /\ ValidField(reasonable, fields[reasonable])) =>
        NumberOf(typical, fields[typical])
            < NumberOf(reasonable, fields[reasonable])

\* a file with exactly one out-of-range field, the others valid
OneOutOfRange(fields) ==
    /\ Cardinality({k \in ConfigKeys : OutOfRange(k, fields[k])}) = 1
    /\ \A k \in ConfigKeys :
          fields[k] # Absent =>
             OutOfRange(k, fields[k]) \/ ValidField(k, fields[k])
    /\ CeilingsAgree(fields, "max_typical_speed_gbps",
                     "max_reasonable_speed_gbps")
    /\ CeilingsAgree(fields, "max_typical_ping_ms",
                     "max_reasonable_ping_ms")

\* C22: for a config file with exactly one out-of-range field and all its
\* other fields valid, the loaded config has each valid field equal to the
\* file's value and the out-of-range field equal to its default.
C22_OneInvalidField ==
    (Loaded /\ loaded_from.kind = "object"
        /\ OneOutOfRange(Fields(loaded_from))) =>
        \A k \in ConfigKeys :
           Fields(loaded_from)[k] # Absent =>
              config[k] = IF OutOfRange(k, Fields(loaded_from)[k])
                          THEN DefaultValue(k)
                          ELSE Fields(loaded_from)[k]

\* the file gives both ceilings as numbers, typical not below reasonable
TypicalNotBelow(fields, typical, reasonable) ==
    /\ IsIntOrFloat(fields[typical])
    /\ IsIntOrFloat(fields[reasonable])
    /\ NumberOf(typical, fields[typical])
          >= NumberOf(reasonable, fields[reasonable])

\* typical is loaded as its default, reasonable as the file gives it
AsymmetricRepair(typical, reasonable) ==
    /\ config[typical] = DefaultValue(typical)
    /\ config[reasonable] = Fields(loaded_from)[reasonable]

CeilingPairs ==
    { <<"max_typical_speed_gbps", "max_reasonable_speed_gbps">>,
      <<"max_typical_ping_ms", "max_reasonable_ping_ms">> }

C24_CeilingsOrdered ==
    Loaded =>
        \A pair \in CeilingPairs :
           NumberOf(pair[1], config[pair[1]])
              < NumberOf(pair[2], config[pair[2]])

\* C25: constructing a SpeedTestConfig never raises, and with a missing
\* file, or a file whose content is not a well-formed JSON object, every
\* field is its default.
C25_LoadNeverRaises ==
    loaded_from # NeverLoaded =>
        /\ load_raised = "none"
        /\ loaded_from.kind # "object" => config = DefaultsCopy

\* C26: create_sample_config returns true only when there was no file,
\* and then the file holds the defaults; when the file exists it returns
\* false and leaves the file as it was, so the call after a successful
\* call returns false and changes nothing.
C26_SampleOnlyWhenMissing ==
    [][ sample_calls' = sample_calls + 1 =>
           /\ sample_ret' = "true" =>
                 /\ ~Exists(config_file)
                 /\ config_file' = DefaultsFile
                 /\ LoadConfig(config_file').config = DefaultsCopy
           /\ Exists(config_file) =>
                 /\ sample_ret' = "false"
                 /\ config_file' = config_file
           /\ (sample_calls > 0 /\ sample_ret = "true") =>
                 /\ sample_ret' = "false"
                 /\ config_file' = config_file
      ]_vars

\* C26 witness: the second call, after a first call that wrote the
\* defaults, returned false
C26_Witness ==
    /\ sample_calls = 2
    /\ sample_ret = "false"
    /\ config_file = DefaultsFile

(***************************************************************************)
(* TestResultStorage (test_results_storage.py): save_result, the queries,  *)
(* cleanup_old_results and the batched exports, with time in days.         *)
(***************************************************************************)
MaxRecords == 3
MaxDay == 2

\* the arguments tried: limit, days and keep_days, batch_size
Limits == 0..MaxRecords

DayCounts == 0..MaxDay

BatchSizes == 0..(MaxRecords - 1)

\* the results handed to save_result: two valid ones and an invalid one
StoreSamples ==
    { [is_valid |-> TRUE,  download_mbps |-> 10, upload_mbps |-> 5,
       ping_ms |-> 40, warnings |-> <<>>],
      [is_valid |-> TRUE,  download_mbps |-> 30, upload_mbps |-> 8,
       ping_ms |-> 20, warnings |-> <<"unusually high speed">>],
      [is_valid |-> FALSE, download_mbps |-> 0,  upload_mbps |-> 0,
       ping_ms |-> 0, warnings |-> <<"measurement failed">>] }

\* a column value: NULL, or the TEXT that json.dumps made of a list
SqlNull == [kind |-> "NULL", items |-> <<>>]
JsonDumps(list) == [kind |-> "TEXT", items |-> list]

\* a Python value: None, or the list that json.loads makes of a TEXT
PyNone == [kind |-> "None", items |-> <<>>]
PyList(items) == [kind |-> "list", items |-> items]
JsonLoads(text) == PyList(text.items)

\* json.dumps(result.warnings) if result.warnings else None
WarningsColumn(warnings) ==
    IF warnings # <<>> THEN JsonDumps(warnings) ELSE SqlNull

\* if result_dict['warnings']: a NULL column is None, which is false, and
\* so is an empty TEXT
TruthyColumn(col) == col.kind = "TEXT" /\ col.items # <<>>

\* dict(row) in get_recent_results and get_results_by_date_range: the
\* warnings are parsed when there are any and left as they are otherwise
QueryDict(row) ==
    [row EXCEPT !.warnings = IF TruthyColumn(@) THEN JsonLoads(@)
                             ELSE PyNone]

\* dict(row) in _get_results_batch: warnings that are not parsed are []
BatchDict(row) ==
    [row EXCEPT !.warnings = IF TruthyColumn(@) THEN JsonLoads(@)
                             ELSE PyList(<<>>)]

QueryDicts(rows) == [i \in 1..Len(rows) |-> QueryDict(rows[i])]

BatchDicts(rows) == [i \in 1..Len(rows) |-> BatchDict(rows[i])]

\* the row that the INSERT of save_result writes
Row(id, timestamp, r) ==
    [id |-> id, timestamp |-> timestamp, is_valid |-> r.is_valid,
     download_mbps |-> r.download_mbps, upload_mbps |-> r.upload_mbps,
     ping_ms |-> r.ping_ms, warnings |-> WarningsColumn(r.warnings)]

MaxId(rows) ==
    IF rows = {} THEN 0
    ELSE CHOOSE i \in {r.id : r \in rows} : \A r \in rows : r.id <= i

\* INTEGER PRIMARY KEY without AUTOINCREMENT: one more than the largest
\* id in the table
NextRowIdOfTable(rows, seq) == MaxId(rows) + 1

\* id INTEGER PRIMARY KEY AUTOINCREMENT: one more than the largest id the
\* table has ever held
NextRowId(rows, seq) == Max(seq, MaxId(rows)) + 1

\* the order of idx_timestamp: by timestamp, rows of one timestamp by id
Before(r, q) ==
    \/ r.timestamp < q.timestamp
    \/ r.timestamp = q.timestamp /\ r.id <= q.id

RECURSIVE OrderAsc(_)
\* ORDER BY timestamp ASC
OrderAsc(rows) ==
    IF rows = {} THEN <<>>
    ELSE LET first == CHOOSE r \in rows : \A q \in rows : Before(r, q)
         IN  <<first>> \o OrderAsc(rows \ {first})

Reverse(seq) == [i \in 1..Len(seq) |-> seq[Len(seq) + 1 - i]]

\* ORDER BY timestamp DESC
OrderDesc(rows) == Reverse(OrderAsc(rows))

\* LIMIT ? OFFSET ?: a negative limit is no limit
SqlLimit(seq, limit, offset) ==
    IF limit < 0 THEN SubSeq(seq, offset + 1, Len(seq))
    ELSE SubSeq(seq, offset + 1, Min(offset + limit, Len(seq)))

\* a WHERE clause that leaves out is_valid = 1
WhereAny(rows) == rows

\* WHERE is_valid = 1
WhereValid(rows) == {r \in rows : r.is_valid}

\* WHERE timestamp BETWEEN ? AND ? without AND is_valid = 1
WhereBetween(rows, start, end) ==
    {r \in rows : start <= r.timestamp /\ r.timestamp <= end}

\* WHERE timestamp BETWEEN ? AND ? AND is_valid = 1
WhereBetweenValid(rows, start, end) ==
    {r \in rows : start <= r.timestamp /\ r.timestamp <= end /\ r.is_valid}

\* get_results_by_date_range
ResultsByDateRange(rows, start, end) ==
    QueryDicts(OrderDesc(WhereBetweenValid(rows, start, end)))

RECURSIVE Insert(_, _)
Insert(sorted, v) ==
    IF sorted = <<>> THEN <<v>>
    ELSE IF v <= Head(sorted) THEN <<v>> \o sorted
    ELSE <<Head(sorted)>> \o Insert(Tail(sorted), v)

RECURSIVE Sorted(_)
\* sorted(values)
Sorted(values) ==
    IF values = <<>> THEN <<>>
    ELSE Insert(Sorted(Tail(values)), Head(values))

RECURSIVE Sum(_)
Sum(values) ==
    IF values = <<>> THEN 0 ELSE Head(values) + Sum(Tail(values))

\* statistics.median, as a fraction: the middle value, or the mean of the
\* two middle values
Median(values) ==
    LET data == Sorted(values)
        n == Len(data)
    IN  IF n % 2 = 1 THEN [num |-> data[(n + 1) \div 2], den |-> 1]
        ELSE [num |-> data[n \div 2] + data[n \div 2 + 1], den |-> 2]

\* calc_stats
CalcStats(values) ==
    [ empty  |-> FALSE,
      min    |-> Sorted(values)[1],
      max    |-> Sorted(values)[Len(values)],
      mean   |-> [num |-> Sum(values), den |-> Len(values)],
      median |-> Median(values),
      count  |-> Len(values) ]

\* the dict {}
EmptyStats == [empty |-> TRUE]

Column(results, name) == [i \in 1..Len(results) |-> results[i][name]]

\* get_statistics
Statistics(rows, days, at) ==
    LET results == ResultsByDateRange(rows, at - days, at)
    IN  IF results = <<>>
        THEN [op |-> "statistics", count |-> 0, period_days |-> days,
              download |-> EmptyStats, upload |-> EmptyStats,
              ping |-> EmptyStats]
        ELSE [op |-> "statistics", count |-> Len(results),
              period_days |-> days,
              download |-> CalcStats(Column(results, "download_mbps")),
              upload |-> CalcStats(Column(results, "upload_mbps")),
              ping |-> CalcStats(Column(results, "ping_ms"))]

\* if days: None and 0 are both false
Truthy(days) == days # Nothing /\ days.val # 0

\* _get_results_batch, which reads the clock at each call
ResultsBatch(rows, days, offset, limit, at) ==
    BatchDicts(SqlLimit(OrderAsc(IF Truthy(days)
                                 THEN {r \in WhereValid(rows) :
                                         r.timestamp >= at - days.val}
                                 ELSE WhereValid(rows)),
                        limit, offset))

InitStore ==
    /\ cfg = DEFAULT_CONFIG
    /\ EngineIdle
    /\ ValidateIdle
    /\ SchedIdle
    /\ ServiceIdle

\* no export is under way
NoExportRunning == export_pc = "idle"

\* self._conn is None
NoConnection(c) == c = 0

\* a _get_connection that connects at every call
ConnectAlways(c) == TRUE

\* _get_connection: if self._conn is None
Connects(c) == NoConnection(c)

\* _get_connection, which every operation calls first: sqlite3.connect and
\* the PRAGMAs when there is no connection, else the connection there is
GetConnection ==
    IF Connects(conn)
    THEN /\ Len(connections) < MaxConnections
         /\ connections' = Append(connections, "open")
         /\ conn' = Len(connections) + 1
    ELSE UNCHANGED <<conn, connections>>

\* an operation whose _get_connection raises: the connection that was
\* made, if any, is closed, self._conn stays None and the error goes on
GetConnectionRaises ==
    /\ NoExportRunning
    /\ Connects(conn)
    /\ Len(connections) < MaxConnections
    /\ connections' = Append(connections, "closed")
    /\ store_ret' = [op |-> "operation", raised |-> "sqlite3.Error"]
    /\ UNCHANGED <<conn, table, sqlite_seq, assigned, today, export_pc,
                   export_args, export_offset, export_out>>
    /\ UNCHANGED <<engine_vars, validate_vars, sched_vars, async_vars,
                   config_vars, cli_vars>>

\* close(): if self._conn: close it, and self._conn = None
CloseStorage ==
    /\ NoExportRunning
    /\ IF NoConnection(conn)
       THEN UNCHANGED <<conn, connections>>
       ELSE /\ connections' = [connections EXCEPT ![conn] = "closed"]
            /\ conn' = 0
    /\ store_ret' = [op |-> "close", raised |-> "none",
                     held |-> ~NoConnection(conn)]
    /\ UNCHANGED <<table, sqlite_seq, assigned, today, export_pc,
                   export_args, export_offset, export_out>>
    /\ UNCHANGED <<engine_vars, validate_vars, sched_vars, async_vars,
                   config_vars, cli_vars>>

\* the clock moves on by a day
StoreTick ==
    /\ export_pc # "done"
    /\ today < MaxDay
    /\ today' = today + 1
    /\ store_ret' = NoRet
    /\ UNCHANGED <<table, sqlite_seq, assigned, export_pc, export_args,
                   export_offset, export_out>>
    /\ UNCHANGED <<conn, connections>>
    /\ UNCHANGED <<engine_vars, validate_vars, sched_vars, async_vars,
                   config_vars, cli_vars>>

\* save_result, for a result that was taken today
SaveResult ==
    /\ NoExportRunning
    /\ sqlite_seq < MaxRecords
    /\ \E r \in StoreSamples, t \in {today} :
          /\ table' = table \cup {Row(NextRowId(table, sqlite_seq), t, r)}
          /\ sqlite_seq' = NextRowId(table, sqlite_seq)
          /\ assigned' = assigned \cup {NextRowId(table, sqlite_seq)}
          /\ store_ret' = [op |-> "save_result",
                           id |-> NextRowId(table, sqlite_seq)]
    /\ UNCHANGED <<today, export_pc, export_args, export_offset, export_out>>
    /\ GetConnection
    /\ UNCHANGED <<engine_vars, validate_vars, sched_vars, async_vars,
                   config_vars, cli_vars>>

\* get_recent_results
GetRecentResults ==
    /\ NoExportRunning
    /\ \E limit \in Limits :
          store_ret' = [op |-> "get_recent_results", limit |-> limit,
                        results |-> QueryDicts(SqlLimit(
                           OrderDesc(WhereValid(table)), limit, 0))]
    /\ UNCHANGED <<table, sqlite_seq, assigned, today, export_pc,
                   export_args, export_offset, export_out>>
    /\ GetConnection
    /\ UNCHANGED <<engine_vars, validate_vars, sched_vars, async_vars,
                   config_vars, cli_vars>>

\* get_statistics
GetStatistics ==
    /\ NoExportRunning
    /\ \E days \in DayCounts : store_ret' = Statistics(table, days, today)
    /\ UNCHANGED <<table, sqlite_seq, assigned, today, export_pc,
                   export_args, export_offset, export_out>>
    /\ GetConnection
    /\ UNCHANGED <<engine_vars, validate_vars, sched_vars, async_vars,
                   config_vars, cli_vars>>

\* a DELETE that takes the record of the cutoff time itself as well
DeleteWhereNotAfter(rows, cutoff_timestamp) ==
    {r \in rows : r.timestamp <= cutoff_timestamp}

\* DELETE FROM test_results WHERE timestamp < ?: the rows that go
DeleteWhere(rows, cutoff_timestamp) ==
    {r \in rows : r.timestamp < cutoff_timestamp}

\* cleanup_old_results
CleanupOldResults ==
    /\ NoExportRunning
    /\ \E keep_days \in DayCounts :
          /\ table' = table \ DeleteWhere(table, today - keep_days)
          /\ store_ret' =
                [op |-> "cleanup_old_results", keep_days |-> keep_days,
                 rowcount |-> Cardinality(
                    DeleteWhere(table, today - keep_days))]
    /\ UNCHANGED <<sqlite_seq, assigned, today, export_pc, export_args,
                   export_offset, export_out>>
    /\ GetConnection
    /\ UNCHANGED <<engine_vars, validate_vars, sched_vars, async_vars,
                   config_vars, cli_vars>>

\* export_to_csv and export_to_json up to their loop: ValueError for a
\* batch_size that is not positive
ExportBegin ==
    /\ NoExportRunning
    /\ \E days \in {Nothing} \cup {Some(d) : d \in DayCounts},
          batch_size \in BatchSizes :
          IF batch_size <= 0
          THEN /\ store_ret' = [op |-> "export", raised |-> "ValueError"]
               /\ UNCHANGED <<export_pc, export_args, export_offset,
                              export_out>>
          ELSE /\ export_pc' = "running"
               /\ export_args' = [days |-> days, batch_size |-> batch_size,
                                  called_at |-> today]
               /\ export_offset' = 0
               /\ export_out' = <<>>
               /\ store_ret' = NoRet
    /\ UNCHANGED <<table, sqlite_seq, assigned, today>>
    /\ UNCHANGED <<conn, connections>>
    /\ UNCHANGED <<engine_vars, validate_vars, sched_vars, async_vars,
                   config_vars, cli_vars>>

\* one turn of the loop of export_to_csv and export_to_json: an empty
\* batch ends the export, which returns the number of records written
ExportBatch ==
    /\ export_pc = "running"
    /\ LET batch == ResultsBatch(table, export_args.days, export_offset,
                                 export_args.batch_size, today)
       IN  IF batch = <<>>
           THEN /\ export_pc' = "done"
                /\ store_ret' = [op |-> "export", raised |-> "none",
                                 count |-> Len(export_out)]
                /\ UNCHANGED <<export_offset, export_out>>
           ELSE /\ export_out' = export_out \o batch
                /\ export_offset' = export_offset + export_args.batch_size
                /\ store_ret' = NoRet
                /\ UNCHANGED export_pc
    /\ UNCHANGED <<table, sqlite_seq, assigned, today, export_args>>
    /\ GetConnection
    /\ UNCHANGED <<engine_vars, validate_vars, sched_vars, async_vars,
                   config_vars, cli_vars>>

\* the export has returned
ExportReturn ==
    /\ export_pc = "done"
    /\ export_pc' = "idle"
    /\ export_args' = NoExport
    /\ export_offset' = 0
    /\ export_out' = <<>>
    /\ store_ret' = NoRet
    /\ UNCHANGED <<table, sqlite_seq, assigned, today>>
    /\ UNCHANGED <<conn, connections>>
    /\ UNCHANGED <<engine_vars, validate_vars, sched_vars, async_vars,
                   config_vars, cli_vars>>

NextStore ==
    \/ StoreTick
    \/ SaveResult
    \/ GetRecentResults
    \/ GetStatistics
    \/ CleanupOldResults
    \/ ExportBegin
    \/ ExportBatch
    \/ ExportReturn

SpecStore == InitStore /\ [][NextStore]_vars

\* a storage whose owner also closes it, and whose connecting can fail
NextConn ==
    \/ SaveResult
    \/ GetRecentResults
    \/ GetStatistics
    \/ CleanupOldResults
    \/ GetConnectionRaises
    \/ CloseStorage

SpecConn == InitStore /\ [][NextConn]_vars

(***************************************************************************)
(* Properties of TestResultStorage.                                        *)
(***************************************************************************)
\* C27: each save_result inserts exactly one new record, whose id is
\* greater than every id assigned before, the ids of records that cleanup
\* has deleted included, and leaves the existing records as they were.
C27_SaveAssignsFreshId ==
    [][ store_ret'.op = "save_result" =>
           /\ \A i \in assigned : store_ret'.id > i
           /\ table \subseteq table'
           /\ Cardinality(table' \ table) = 1
           /\ \A r \in table' \ table : r.id = store_ret'.id
      ]_vars

\* C27 witness: the third save got id 3 after cleanup had deleted the
\* records 1 and 2
C27_Witness ==
    /\ store_ret.op = "save_result"
    /\ store_ret.id = 3
    /\ {r.id : r \in table} = {3}
    /\ assigned = {1, 2, 3}

\* the valid records of the table
ValidRecords == {r \in table : r.is_valid}

\* C28: get_recent_results(limit) returns valid records only, each once,
\* by timestamp descending, at most limit of them and as many as there are
\* up to limit, none older than a valid record left out, and does not
\* modify the store.
C28_RecentValidDescending ==
    [][ store_ret'.op = "get_recent_results" =>
           LET out == store_ret'.results
               limit == store_ret'.limit
           IN  /\ table' = table
               /\ sqlite_seq' = sqlite_seq
               /\ \A i \in 1..Len(out) :
                     \E r \in ValidRecords : QueryDict(r) = out[i]
               /\ \A i, j \in 1..Len(out) :
                     i < j => /\ out[i] # out[j]
                              /\ out[i].timestamp >= out[j].timestamp
               /\ Len(out) = Min(limit, Cardinality(ValidRecords))
               /\ \A r \in ValidRecords :
                     (\A i \in 1..Len(out) : out[i].id # r.id) =>
                        \A i \in 1..Len(out) :
                           out[i].timestamp >= r.timestamp
      ]_vars

\* C28 witness: with two valid records of different days and a later
\* invalid one in the store, limit 1 gave the later valid record
C28_Witness ==
    /\ store_ret.op = "get_recent_results"
    /\ store_ret.limit = 1
    /\ Len(store_ret.results) = 1
    /\ Cardinality(ValidRecords) = 2
    /\ \E r \in ValidRecords : r.timestamp < store_ret.results[1].timestamp
    /\ \E r \in table :
          ~r.is_valid /\ r.timestamp >= store_ret.results[1].timestamp

\* the valid records of the last days days
ValidInWindow(days) ==
    {r \in table :
        r.is_valid /\ today - days <= r.timestamp /\ r.timestamp <= today}

\* min <= median <= max
MedianBetween(stats) ==
    /\ stats.min * stats.median.den <= stats.median.num
    /\ stats.median.num <= stats.max * stats.median.den

\* C29: get_statistics(days) returns count 0 and empty download, upload
\* and ping structs when no valid record lies in the last days days, and
\* otherwise the number of valid records of that window as count and as
\* each metric's count, with min <= median <= max for each metric.
C29_StatisticsOverWindow ==
    store_ret.op = "statistics" =>
        LET n == Cardinality(ValidInWindow(store_ret.period_days))
        IN  /\ store_ret.count = n
            /\ n = 0 =>
                  /\ store_ret.download = EmptyStats
                  /\ store_ret.upload = EmptyStats
                  /\ store_ret.ping = EmptyStats
            /\ n > 0 =>
                  \A m \in {store_ret.download, store_ret.upload,
                            store_ret.ping} :
                     /\ ~m.empty
                     /\ m.count = n
                     /\ MedianBetween(m)

\* C29 witness: statistics over a window that holds two of the three
\* records, both valid, with the median halfway between min and max
C29_Witness ==
    /\ store_ret.op = "statistics"
    /\ store_ret.count = 2
    /\ Cardinality(table) = 3
    /\ store_ret.download.min = 10
    /\ store_ret.download.max = 30
    /\ store_ret.download.median = [num |-> 40, den |-> 2]

\* the valid records that match the day bound of the export under way
ExportMatching ==
    IF export_args.days = Nothing THEN ValidRecords
    ELSE {r \in ValidRecords :
            r.timestamp >= export_args.called_at - export_args.days.val}

\* C30: an export with a positive batch_size writes every valid record
\* that matches the day bound exactly once, oldest first, and returns
\* their number, whatever the batch_size.
C30_ExportOldestFirst ==
    export_pc = "done" =>
        /\ Column(export_out, "id") = Column(OrderAsc(ExportMatching), "id")
        /\ store_ret.count = Len(export_out)

(***************************************************************************)
(* Further properties of the scheduler.                                    *)
(***************************************************************************)
\* the loop workers of the runner that have been started and have not ended
ActiveWorkers == {w \in WorkerIds : IsAlive(w)}

\* C36: at most one scheduler loop worker is active per runner at any time,
\* for any sequence of start_scheduler and stop_scheduler calls, a
\* stop_scheduler that returned after its 5 s wait while a test was in
\* flight and was followed by a new start_scheduler included.
C36_OneLoopWorker == Cardinality(ActiveWorkers) <= 1

\* C37: every execution of _run_scheduled_test increments exactly one of
\* tests_completed and tests_failed, exactly once, whatever its outcome, so
\* that their sum is the number of executions finished.
C37_OneCounterPerTest ==
    [][ \A w \in WorkerIds :
           (wpc[w] = "testing" /\ wpc'[w] # "testing") =>
               tests_completed' + tests_failed' =
                  tests_completed + tests_failed + 1
      ]_vars

(***************************************************************************)
(* Further properties of the engine.                                       *)
(***************************************************************************)
\* C35: the cancellation signal is scoped to one test: when a call of
\* run_speed_test_with_retry has returned its Cancelled result and a new
\* call begins on the same engine, the new call begins with the signal not
\* set, so that without a further cancel_test() the check at the head of
\* its first attempt passes and the attempt goes to the provider.
C35_SignalScopedToOneTest ==
    [][ (pc = "returned" /\ ret.is_cancelled /\ pc' = "retry_check")
           => ~cancel_event'
      ]_vars

(***************************************************************************)
(* Further properties of the asynchronous runner.                          *)
(***************************************************************************)
\* the threads that are inside engine.run_speed_test_with_retry
Executing == {w \in DOMAIN a_pc : a_pc[w] \in {"started", "running"}}

\* C38: start_test called while the thread of an earlier start_test is
\* still alive starts nothing, so at most one thread executes
\* run_speed_test_with_retry on the runner's engine (and at most one is
\* alive) at any time, for any sequence of start_test and cancel_test.
C38_OneTestAtATime ==
    /\ Cardinality(Executing) <= 1
    /\ Cardinality({w \in DOMAIN a_pc : a_pc[w] # "dead"}) <= 1

\* C38 witness: start_test was called after cancel_test while the first
\* thread was still inside the test; it started nothing
C38_Witness ==
    /\ a_op = "start_noop"
    /\ cancel_requested
    /\ runner_thread = 1
    /\ a_pc[1] = "running"
    /\ Executing = {1}

(***************************************************************************)
(* Further properties of the result store.                                 *)
(***************************************************************************)
\* json.dump and json.load of a record: None is written as null, a list
\* as an array, and read back as None and as a list
ToJson(record) ==
    [record EXCEPT !.warnings.kind = IF @ = "None" THEN "null" ELSE "array"]

FromJson(value) ==
    [value EXCEPT !.warnings.kind = IF @ = "null" THEN "None" ELSE "list"]

\* the records that reparsing the file of the finished export yields
Reparsed == [i \in 1..Len(export_out) |-> FromJson(ToJson(export_out[i]))]

\* what get_results_by_date_range returns for the window of the export:
\* from days before the export_to_json call (from the beginning, for
\* days = None) until now
SameWindow ==
    ResultsByDateRange(table,
                       IF export_args.days = Nothing THEN 0
                       ELSE export_args.called_at - export_args.days.val,
                       today)

\* C31: reparsing the file of export_to_json(path, days) yields as many
\* records as get_results_by_date_range returns for the same window and,
\* record for record, the same field values, warnings included, in
\* another order at most.
C31_ExportEqualsQuery ==
    export_pc = "done" =>
        /\ Len(Reparsed) = Len(SameWindow)
        /\ {Reparsed[i] : i \in 1..Len(Reparsed)}
              = {SameWindow[i] : i \in 1..Len(SameWindow)}

\* C32: cleanup_old_results(keep_days) deletes exactly the records, valid
\* or not, whose timestamp is older than now - keep_days, returns their
\* number and leaves every other record as it was; the same call made
\* again at once deletes nothing and returns 0.
C32_CleanupDeletesOld ==
    [][ store_ret'.op = "cleanup_old_results" =>
           LET keep_days == store_ret'.keep_days
               old == {r \in table : r.timestamp < today - keep_days}
           IN  /\ table' = table \ old
               /\ store_ret'.rowcount = Cardinality(old)
               /\ \A r \in table' : ~(r.timestamp < today' - keep_days)
               /\ (/\ store_ret.op = "cleanup_old_results"
                   /\ store_ret.keep_days = keep_days) =>
                      /\ store_ret'.rowcount = 0
                      /\ table' = table
      ]_vars

\* C32 witness: cleanup_old_results(1) deleted the two records of two days
\* ago and kept the record of today
C32_Witness ==
    /\ store_ret.op = "cleanup_old_results"
    /\ store_ret.keep_days = 1
    /\ store_ret.rowcount = 2
    /\ sqlite_seq = 3
    /\ {r.timestamp : r \in table} = {today}
    /\ today = 2

\* the connections of the storage that are open
OpenConnections ==
    {i \in 1..Len(connections) : connections[i] = "open"}

\* the operations of the storage that return a value
StoreOperations ==
    {"save_result", "get_recent_results", "statistics",
     "cleanup_old_results"}

\* C33: a TestResultStorage holds at most one open connection at any time
\* and its operations reuse it; close() releases it; a second close() does
\* nothing and raises nothing; an operation after close() opens a single
\* new connection and succeeds.
C33_SingleConnection ==
    [][ /\ OpenConnections' \subseteq {conn'}
        /\ (conn # 0 /\ store_ret'.op # "close") =>
              UNCHANGED <<conn, connections>>
        /\ (conn = 0 /\ conn' # 0) =>
              /\ connections' = Append(connections, "open")
              /\ conn' = Len(connections')
        /\ store_ret'.op = "close" =>
              /\ store_ret'.raised = "none"
              /\ conn' = 0
              /\ OpenConnections' = {}
              /\ conn = 0 => UNCHANGED <<conn, connections, table>>
        /\ (store_ret.op = "close" /\ store_ret'.op \in StoreOperations) =>
              /\ OpenConnections' = {conn'}
              /\ Len(connections') = Len(connections) + 1
      ]_vars

\* C33 witness: close() released the first connection, and the save_result
\* that followed made the second connection, the only one open
C33_Witness ==
    /\ store_ret.op = "save_result"
    /\ connections = <<"closed", "open">>
    /\ conn = 2
    /\ Cardinality(table) = 2

(***************************************************************************)
(* The one-shot command lines: main() of sp.py, with its own               *)
(* check_network_connectivity, run_speed_test_with_retry, run_speed_test   *)
(* and validate_results, and main() of scheduled_testing.py with           *)
(* --create-config or --immediate.                                         *)
(***************************************************************************)
\* the exception classes a command line meets, each with its base class
ExceptionBase(type) ==
    CASE type = "ConfigRetrievalError" -> "SpeedtestException"
      [] type = "NoMatchedServers" -> "SpeedtestException"
      [] type = "SpeedtestException" -> "Exception"
      [] type = "ConnectionError" -> "OSError"
      [] type = "TimeoutError" -> "OSError"
      [] type = "OSError" -> "Exception"
      [] type = "ValueError" -> "Exception"
      [] type = "AttributeError" -> "Exception"
      [] type = "Exception" -> "BaseException"
      [] type = "KeyboardInterrupt" -> "BaseException"
      [] OTHER -> "BaseException"

RECURSIVE IsInstance(_, _)
\* isinstance(exception, class)
IsInstance(type, class) ==
    \/ type = class
    \/ type # "BaseException" /\ IsInstance(ExceptionBase(type), class)

\* an except clause that names these classes takes the exception
Caught(type, classes) == \E class \in classes : IsInstance(type, class)

\* what the provider makes a test meet
TestErrors ==
    {"ConfigRetrievalError", "NoMatchedServers", "SpeedtestException",
     "OSError", "ConnectionError", "TimeoutError", "ValueError",
     "KeyboardInterrupt"}

NoResults == [download |-> Missing, upload |-> Missing, ping |-> Missing]

\* results.dict(): a good measurement, a negative one, one beyond the
\* reasonable ceiling and one whose ping is no number
CliMeasurements ==
    { [download |-> Num(500), upload |-> Num(200), ping |-> Num(20)],
      [download |-> Num(-1), upload |-> Num(200), ping |-> Num(20)],
      [download |-> Num(100001), upload |-> Num(200), ping |-> Num(20)],
      [download |-> Num(500), upload |-> Num(200), ping |-> NotANumber] }

\* validate_results of sp.py: (is_valid, the one warning)
CliValidateResults(conf, results) ==
    LET d == GetOrZero(results.download)
        u == GetOrZero(results.upload)
        p == GetOrZero(results.ping)
        neg == NegativeCheck(d, u, p)
        max_reasonable_bps ==
           (conf.max_reasonable_speed_gbps * BitsPerGbps) \div 10
        max_typical_bps ==
           (conf.max_typical_speed_gbps * BitsPerGbps) \div 10
    IN  IF neg = "raise" THEN [valid |-> FALSE, warning |-> "structure"]
        ELSE IF neg = "yes" THEN [valid |-> FALSE, warning |-> "negative"]
        ELSE IF d.val > max_reasonable_bps \/ u.val > max_reasonable_bps
             THEN [valid |-> FALSE, warning |-> "extreme speed"]
        ELSE IF p.val > conf.max_reasonable_ping_ms
             THEN [valid |-> FALSE, warning |-> "extreme ping"]
        ELSE IF d.val > max_typical_bps \/ u.val > max_typical_bps
             THEN [valid |-> TRUE, warning |-> "high speed"]
        ELSE IF p.val > conf.max_typical_ping_ms
             THEN [valid |-> TRUE, warning |-> "high latency"]
        ELSE IF d.val < LowSpeedBps /\ u.val < LowSpeedBps
             THEN [valid |-> TRUE, warning |-> "low speed"]
        ELSE [valid |-> TRUE, warning |-> ""]

\* one call of main(): what was called, the exception it met inside
\* ("none" for none), what was measured and whether that is valid
Event(call, type, results, is_valid) ==
    [call |-> call, type |-> type, results |-> results,
     is_valid |-> is_valid]

\* the except clauses of run_speed_test of sp.py, the last of which is
\* except Exception
RunSpeedTestHandlers ==
    {"ConfigRetrievalError", "NoMatchedServers", "SpeedtestException",
     "KeyboardInterrupt", "Exception"}

\* run_speed_test of sp.py: the results, or None when a handler took the
\* exception; raised is the exception that no handler took
CliRunSpeedTest(type, results) ==
    IF type = "none" THEN [raised |-> "none", results |-> Some(results)]
    ELSE IF Caught(type, RunSpeedTestHandlers)
         THEN [raised |-> "none", results |-> Nothing]
    ELSE [raised |-> type, results |-> Nothing]

\* except (speedtest.ConfigRetrievalError, OSError, ConnectionError)
RetryHandlers == {"ConfigRetrievalError", "OSError", "ConnectionError"}

\* one turn of the loop of run_speed_test_with_retry of sp.py, given what
\* run_speed_test did: "return", "continue" or "raise"
CliRetryStep(r, attempt_index, max_retries) ==
    IF r.raised = "none" THEN "return"
    ELSE IF Caught(r.raised, RetryHandlers)
         THEN IF attempt_index < max_retries - 1 THEN "continue" ELSE "return"
    ELSE IF Caught(r.raised, {"Exception"}) THEN "return"
    ELSE "raise"

CommandLines ==
    {"sp.py", "sp.py --create-config", "scheduled_testing.py --immediate",
     "scheduled_testing.py --create-config"}

InitCli ==
    /\ cfg \in EngineConfigs
    /\ EngineIdle
    /\ ValidateIdle
    /\ SchedIdle
    /\ AsyncIdle
    /\ ConfigIdle
    /\ StoreIdle
    /\ sys_argv \in CommandLines
    /\ cli_pc = "start"
    /\ cli_log = <<>>
    /\ exit_code = -1

\* main() of sp.py as far as the connectivity check: load_config(), and
\* create_sample_config() for --create-config; an exception that leaves
\* main() is printed by the interpreter, and the process ends with code 1
CliMain ==
    /\ cli_pc = "start"
    /\ sys_argv \in {"sp.py", "sp.py --create-config"}
    /\ \E type \in {"none", "AttributeError"} :
          IF type # "none"
          THEN /\ cli_log' = <<Event("load_config", type, NoResults, FALSE)>>
               /\ cli_pc' = "exited"
               /\ exit_code' = 1
          ELSE IF sys_argv = "sp.py --create-config"
               THEN /\ cli_log' = <<Event("load_config", "none", NoResults,
                                         FALSE),
                                   Event("create_sample_config", "none",
                                         NoResults, FALSE)>>
                    /\ cli_pc' = "exited"
                    /\ exit_code' = 0
               ELSE /\ cli_log' = <<Event("load_config", "none", NoResults,
                                         FALSE)>>
                    /\ cli_pc' = "connectivity"
                    /\ UNCHANGED exit_code
    /\ UNCHANGED sys_argv
    /\ UNCHANGED <<engine_vars, validate_vars, sched_vars, async_vars,
                   config_vars, store_vars>>

\* except (speedtest.SpeedtestException, speedtest.ConfigRetrievalError,
\* OSError, TimeoutError, ConnectionError): return False
ConnectivityHandlers ==
    {"SpeedtestException", "ConfigRetrievalError", "OSError", "TimeoutError",
     "ConnectionError"}

\* main() of sp.py: check_network_connectivity()
CliCheckConnectivity ==
    /\ cli_pc = "connectivity"
    /\ \E type \in {"none", "ConfigRetrievalError", "OSError", "TimeoutError",
                    "ValueError"} :
          /\ cli_log' = Append(cli_log, Event("check_network_connectivity",
                                              type, NoResults, FALSE))
          /\ IF type = "none"
             THEN cli_pc' = "retry" /\ UNCHANGED exit_code
             ELSE /\ cli_pc' = "exited"
                  /\ exit_code' = IF Caught(type, ConnectivityHandlers)
                                  THEN 1 ELSE 1
    /\ UNCHANGED sys_argv
    /\ UNCHANGED <<engine_vars, validate_vars, sched_vars, async_vars,
                   config_vars, store_vars>>

\* the run_speed_test calls made so far
IsAttempt(event) == event.call = "run_speed_test"

Attempts == SelectSeq(cli_log, IsAttempt)

\* one turn of the loop of run_speed_test_with_retry of sp.py and, when
\* the loop returns, the rest of main(): 1 for None, else the results are
\* displayed and 0 is returned
CliAttempt ==
    /\ cli_pc = "retry"
    /\ Len(Attempts) < cfg.max_retries
    /\ \E type \in {"none"} \cup TestErrors,
          measured \in CliMeasurements :
          LET results == IF type = "none" THEN measured ELSE NoResults
              r == CliRunSpeedTest(type, results)
              step == CliRetryStep(r, Len(Attempts), cfg.max_retries)
          IN  /\ type # "none" => measured = CHOOSE m \in CliMeasurements : TRUE
              /\ cli_log' =
                    Append(cli_log,
                           Event("run_speed_test", type, results,
                                 /\ type = "none"
                                 /\ CliValidateResults(cfg, results).valid))
              /\ IF step = "continue"
                 THEN UNCHANGED <<cli_pc, exit_code>>
                 ELSE /\ cli_pc' = "exited"
                      /\ exit_code' =
                            IF step = "raise" THEN 1
                            ELSE IF r.results = Nothing THEN 1
                            ELSE 0
    /\ UNCHANGED sys_argv
    /\ UNCHANGED <<engine_vars, validate_vars, sched_vars, async_vars,
                   config_vars, store_vars>>

\* main() of scheduled_testing.py with --create-config: 0 whether the
\* file was written or was there already
SchedulerCreateConfig ==
    /\ cli_pc = "start"
    /\ sys_argv = "scheduled_testing.py --create-config"
    /\ cli_log' = <<Event("create_sample_config", "none", NoResults, FALSE)>>
    /\ cli_pc' = "exited"
    /\ exit_code' = 0
    /\ UNCHANGED sys_argv
    /\ UNCHANGED <<engine_vars, validate_vars, sched_vars, async_vars,
                   config_vars, store_vars>>

\* main() of scheduled_testing.py with --immediate
SchedulerImmediate ==
    /\ cli_pc = "start"
    /\ sys_argv = "scheduled_testing.py --immediate"
    /\ \E connected \in BOOLEAN,
          r \in {ValidResult, InvalidResult, CancelledTest},
          save_raises \in BOOLEAN :
          LET check == Event("check_network_connectivity",
                             IF connected THEN "none" ELSE "OSError",
                             NoResults, FALSE)
              test == Event("run_speed_test_with_retry", "none", NoResults,
                            r.is_valid)
              save == Event("save_result",
                            IF save_raises THEN "OSError" ELSE "none",
                            NoResults, r.is_valid)
          IN  IF ~connected
              THEN /\ r = ValidResult /\ ~save_raises
                   /\ cli_log' = <<check>>
                   /\ exit_code' = 1
              ELSE IF ~r.is_valid
                   THEN /\ ~save_raises
                        /\ cli_log' = <<check, test>>
                        /\ exit_code' = 1
              ELSE /\ cli_log' = <<check, test, save>>
                   /\ exit_code' = IF save_raises THEN 1 ELSE 0
    /\ cli_pc' = "exited"
    /\ UNCHANGED sys_argv
    /\ UNCHANGED <<engine_vars, validate_vars, sched_vars, async_vars,
                   config_vars, store_vars>>

NextCli ==
    \/ CliMain
    \/ CliCheckConnectivity
    \/ CliAttempt
    \/ SchedulerCreateConfig
    \/ SchedulerImmediate

SpecCli == InitCli /\ [][NextCli]_vars

\* the last call main() made
LastCall == cli_log[Len(cli_log)]

\* the test completed and its result is valid (and, with --immediate, was
\* saved)
CompletedValid ==
    /\ LastCall.call \in {"run_speed_test", "save_result"}
    /\ LastCall.type = "none"
    /\ LastCall.is_valid

\* a side command succeeded
SideCommandDone ==
    LastCall.call = "create_sample_config" /\ LastCall.type = "none"

\* the test completed with a result that is not valid
CompletedInvalid ==
    /\ LastCall.call \in {"run_speed_test", "run_speed_test_with_retry"}
    /\ LastCall.type = "none"
    /\ ~LastCall.is_valid

\* C34: a one-shot invocation exits with 0 only when the test completed
\* with a valid result or a side command succeeded, and with 1 on a
\* connectivity failure, on an invalid result and on an unexpected error.
C34_ExitCodes ==
    cli_pc = "exited" =>
        /\ exit_code \in {0, 1}
        /\ exit_code = 0 => CompletedValid \/ SideCommandDone
        /\ LastCall.call = "check_network_connectivity" => exit_code = 1
        /\ CompletedInvalid => exit_code = 1
        /\ LastCall.type # "none" => exit_code = 1

\* a transient network failure: a configuration retrieval error, an OS
\* error or a connection error
NetworkFailure(event) ==
    event.type # "none" /\ Caught(event.type, RetryHandlers)

\* C39: run_speed_test_with_retry of sp.py runs the test again after a
\* transient network failure until an attempt succeeds or max_retries
\* attempts were made, and not after another error: every attempt but the
\* last met a network failure, and a last attempt that met one is attempt
\* number max_retries.
C39_CliRetriesNetworkFailures ==
    (cli_pc = "exited" /\ Attempts # <<>>) =>
        /\ Len(Attempts) <= cfg.max_retries
        /\ \A i \in 1..(Len(Attempts) - 1) : NetworkFailure(Attempts[i])
        /\ NetworkFailure(Attempts[Len(Attempts)]) =>
              Len(Attempts) = cfg.max_retries

(***************************************************************************)
(* ConfigValidator.validate_config, next to the loader.                    *)
(***************************************************************************)
\* isinstance(value, rules['type']) for the types of SCHEMA: bool for the
\* two flags, int for max_retries (every number the model gives that key
\* is an int), (int, float) for the other keys; bool is a subclass of int
SchemaType(key, value) ==
    IF key \in BoolKeys THEN value.kind = "bool"
    ELSE value.kind \in {"num", "bool"}

\* the range test of validate_config, with the min and max that
\* sync_schema_from_core copies from VALIDATION_RULES at every call
SchemaRange(key, value) ==
    \/ key \notin DOMAIN VALIDATION_RULES
    \/ /\ ~(NumberOf(key, value) < VALIDATION_RULES[key][1])
       /\ ~(NumberOf(key, value) > VALIDATION_RULES[key][2])

\* if typical in config and reasonable in config:
\*     if config[typical] > config[reasonable]: an error
TypicalExceeds(conf, typical, reasonable) ==
    /\ typical \in DOMAIN conf
    /\ reasonable \in DOMAIN conf
    /\ NumberOf(typical, conf[typical])
          > NumberOf(reasonable, conf[reasonable])

\* the comparison of the consistency check raises TypeError for a value
\* that is no number
ComparisonRaises(conf, typical, reasonable) ==
    /\ typical \in DOMAIN conf
    /\ reasonable \in DOMAIN conf
    /\ ~IsIntOrFloat(conf[typical]) \/ ~IsIntOrFloat(conf[reasonable])

\* validate_config: the keys with an error, and what it raises
ValidateConfig(conf) ==
    LET unknown_keys == DOMAIN conf \ ConfigKeys
        bad == {k \in DOMAIN conf \cap ConfigKeys :
                  ~SchemaType(k, conf[k]) \/ ~SchemaRange(k, conf[k])}
        speed == <<"max_typical_speed_gbps", "max_reasonable_speed_gbps">>
        ping == <<"max_typical_ping_ms", "max_reasonable_ping_ms">>
    IN  IF \/ ComparisonRaises(conf, speed[1], speed[2])
           \/ ComparisonRaises(conf, ping[1], ping[2])
        THEN [is_valid |-> FALSE, raised |-> "TypeError"]
        ELSE [is_valid |-> /\ unknown_keys = {}
                           /\ bad = {}
                           /\ ~TypicalExceeds(conf, speed[1], speed[2])
                           /\ ~TypicalExceeds(conf, ping[1], ping[2]),
              raised |-> "none"]

\* SpeedTestConfig took every field of the file as the file gives it
LoadedUnchanged ==
    \A k \in DOMAIN loaded_from.fields :
       k \in ConfigKeys /\ config[k] = loaded_from.fields[k]

\* C40: validate_config accepts a configuration exactly when
\* SpeedTestConfig loads every field of it unchanged.
C40_ValidatorMatchesLoader ==
    (constructed /\ loaded_from.kind = "object") =>
        (ValidateConfig(loaded_from.fields).is_valid <=> LoadedUnchanged)

====
